---- MODULE Spec2Model ----
(***************************************************************************)
(* myquery: the multi-database registry, the fan-out query tool with its   *)
(* union / join merge, and the MCP server's session dispatcher.            *)
(*                                                                         *)
(* Python dicts whose iteration order the code relies on (the registry,    *)
(* the per-connection result mapping, the DataFrame mapping) are sequences *)
(* of <<key, value>> entries in insertion order.  A result row (a dict     *)
(* whose order no code reads) is a function from column name to value.     *)
(* All cell values are strings; Python's None and pandas' NaN are the      *)
(* strings "None" and "NaN", which no table of the catalogue holds.        *)
(***************************************************************************)
EXTENDS Naturals, Sequences, FiniteSets, TLC

VARIABLES
    connections,    \* MultiDBManager.connections : name -> Engine (dict)
    metadata,       \* MultiDBManager.metadata    : name -> info   (dict)
    last,           \* the last call of the multi-database surface and its return
    api_key,        \* settings.openai_api_key, None when settings is None
    sessions,       \* MCPServer.sessions : session id -> context  (dict)
    agents,         \* MCPServer.agents   : session id -> QueryAgent (dict)
    uuids,          \* how many ids uuid.uuid4() has produced
    made,           \* how many QueryAgent objects have been constructed
    response,       \* the last request of the MCP server and its response
    iter,           \* a pass over the registry that another thread may cross
    cli,            \* the last multidb command of the CLI and its exit code
    client,         \* an MCPClient: its session_id and the sessions it was served on
    task            \* the execute_action coroutine of the event loop

vars == <<connections, metadata, last,
          api_key, sessions, agents, uuids, made, response, iter,
          cli, client, task>>

mdbVars == <<connections, metadata, last>>
mcpVars == <<api_key, sessions, agents, uuids, made, response>>
auxVars == <<cli, client, task>>

None == "None"
NaN == "NaN"

-----------------------------------------------------------------------------
(* Python dict, insertion ordered: a sequence of <<key, value>> pairs.      *)

Range(s) == {s[i] : i \in 1..Len(s)}

Keys(d) == [i \in 1..Len(d) |-> d[i][1]]

KeySet(d) == {d[i][1] : i \in 1..Len(d)}

HasKey(d, k) == k \in KeySet(d)

\* d[k] for a key that is present
DictAt(d, k) == d[CHOOSE i \in 1..Len(d) : d[i][1] = k][2]

\* d.get(k): None when absent
DictGet(d, k) == IF HasKey(d, k) THEN DictAt(d, k) ELSE None

\* d[k] = v: a present key keeps its position, a new key goes last
DictSet(d, k, v) ==
    IF HasKey(d, k)
    THEN [i \in 1..Len(d) |-> IF d[i][1] = k THEN <<k, v>> ELSE d[i]]
    ELSE Append(d, <<k, v>>)

\* del d[k]
DictDel(d, k) == SelectSeq(d, LAMBDA e : e[1] # k)

-----------------------------------------------------------------------------
(* The databases behind the engines.  Each sqlite file holds one table t,  *)
(* or none.  a.db and b.db are the spec's join example; c.db has a column  *)
(* named _source_db, no id column and one x value twice; missing.db is a   *)
(* file sqlite creates empty on connect, so SELECT 1 succeeds on it and    *)
(* any query of t fails;                                                   *)
(* /nodir/x.db cannot be opened at all.                                    *)

DbFiles == {"a.db", "b.db", "c.db", "missing.db"}

DbNames == DbFiles \cup {"/nodir/x.db"}

DbTypes == {"sqlite", "postgresql", "oracle"}

NoTable == [columns |-> <<>>, rows |-> <<>>, exists |-> FALSE]

Catalog(db) ==
    CASE db = "a.db" -> [columns |-> <<"id", "x">>, exists |-> TRUE,
                         rows |-> << <<"1", "a">>, <<"2", "b">> >>]
      [] db = "b.db" -> [columns |-> <<"id", "y">>, exists |-> TRUE,
                         rows |-> << <<"2", "c">>, <<"3", "d">> >>]
      [] db = "c.db" -> [columns |-> <<"_source_db", "x">>, exists |-> TRUE,
                         rows |-> << <<"z", "b">>, <<"w", "b">> >>]
      [] OTHER -> NoTable

\* create_engine(db_url) followed by the probe SELECT 1
ProbeOk(db_type, db_name) == db_type = "sqlite" /\ db_name \in DbFiles

-----------------------------------------------------------------------------
(* MultiDBManager                                                          *)

Names == {"a", "b", "c"}

list_connections == Keys(connections)

get_connection(name) == DictGet(connections, name)

get_connection_info(name) == DictGet(metadata, name)

Before == [connections |-> connections, metadata |-> metadata]

\* no call is in progress and no return value is waiting for the caller
NoCall == [op |-> "none"]

\* MCPClient.__init__: no session id yet; used holds the sessions the
\* server dispatched the client's requests on since then
NoClient == [session_id |-> None, used |-> {}]

\* no pass over the registry is under way, and the key table of
\* connections has used no entry
NoIter == [op |-> "none", nentries |-> 0]

\* add_connection with lines 65-71 ahead of the probe of lines 60-62: the
\* engine is stored before it is tested
add_connection_eager(name, db_type, db_name) ==
    IF db_type \notin {"sqlite", "postgresql", "mysql"}
    THEN /\ last' = [op |-> "add", name |-> name, status |-> "unsupported",
                     before |-> Before]
         /\ UNCHANGED <<connections, metadata>>
    ELSE /\ connections' = DictSet(connections, name, db_name)
         /\ metadata' = DictSet(metadata, name,
                                [type |-> db_type, name |-> db_name])
         /\ last' = [op |-> "add", name |-> name,
                     status |-> IF ProbeOk(db_type, db_name)
                                THEN "ok" ELSE "failed",
                     before |-> Before]

\* add_connection: the url is built, the engine probed, and only then stored
add_connection(name, db_type, db_name) ==
    IF db_type \notin {"sqlite", "postgresql", "mysql"}
    THEN /\ last' = [op |-> "add", name |-> name, status |-> "unsupported",
                     before |-> Before]
         /\ UNCHANGED <<connections, metadata>>
    ELSE IF ~ProbeOk(db_type, db_name)
    THEN /\ last' = [op |-> "add", name |-> name, status |-> "failed",
                     before |-> Before]
         /\ UNCHANGED <<connections, metadata>>
    ELSE /\ connections' = DictSet(connections, name, db_name)
         /\ metadata' = DictSet(metadata, name,
                                [type |-> db_type, name |-> db_name])
         /\ last' = [op |-> "add", name |-> name, status |-> "ok",
                     before |-> Before]

\* remove_connection without line 88: the entry stays in connections
remove_connection_keeps(name, disposeRaises) ==
    IF ~HasKey(connections, name)
    THEN /\ last' = [op |-> "remove", name |-> name, status |-> "not_found",
                     before |-> Before]
         /\ UNCHANGED <<connections, metadata>>
    ELSE /\ metadata' = DictDel(metadata, name)
         /\ last' = [op |-> "remove", name |-> name, status |-> "ok",
                     before |-> Before]
         /\ UNCHANGED connections

\* remove_connection: dispose, then evict from both dicts; an exception of
\* dispose() leaves both dicts as they were
remove_connection(name, disposeRaises) ==
    IF ~HasKey(connections, name)
    THEN /\ last' = [op |-> "remove", name |-> name, status |-> "not_found",
                     before |-> Before]
         /\ UNCHANGED <<connections, metadata>>
    ELSE IF disposeRaises
    THEN /\ last' = [op |-> "remove", name |-> name, status |-> "failed",
                     before |-> Before]
         /\ UNCHANGED <<connections, metadata>>
    ELSE /\ connections' = DictDel(connections, name)
         /\ metadata' = DictDel(metadata, name)
         /\ last' = [op |-> "remove", name |-> name, status |-> "ok",
                     before |-> Before]

AddConnection ==
    \E name \in Names, db_type \in DbTypes, db_name \in DbNames :
        /\ last = NoCall
        /\ add_connection(name, db_type, db_name)
        /\ UNCHANGED <<mcpVars, iter, auxVars>>

RemoveConnection ==
    \E name \in Names, disposeRaises \in BOOLEAN :
        /\ last = NoCall
        /\ remove_connection(name, disposeRaises)
        /\ UNCHANGED <<mcpVars, iter, auxVars>>

-----------------------------------------------------------------------------
(* What an engine returns for a query.  The statements are                 *)
(*   SELECT * FROM t               every column, every row                 *)
(*   SELECT * FROM t WHERE 1=0     every column, no row                    *)
(*   SELECT t.*, t.* FROM t        every column twice, every row           *)
(*   SELECT * FROM t WHERE x = 'a' every column, the rows with x = 'a';    *)
(*                                 an error on a table without column x    *)
(* and each fails with "no such table: t" on a file that holds no table.   *)

Q_STAR == "SELECT * FROM t"
Q_EMPTY == "SELECT * FROM t WHERE 1=0"
Q_DUP == "SELECT t.*, t.* FROM t"
Q_XA == "SELECT * FROM t WHERE x = 'a'"

Queries == {Q_STAR, Q_EMPTY, Q_DUP, Q_XA}

IndexOf(s, e) == CHOOSE i \in 1..Len(s) : s[i] = e

\* result.keys() and result.fetchall() of conn.execute(query)
Cursor(engine, query) ==
    LET t == Catalog(engine)
        noX == query = Q_XA /\ "x" \notin Range(t.columns)
    IN  [raised |-> ~t.exists \/ noX,
         msg |-> IF ~t.exists THEN "no such table: t"
                 ELSE IF noX THEN "no such column: x" ELSE "",
         columns |-> IF query = Q_DUP THEN t.columns \o t.columns
                     ELSE t.columns,
         rows |-> CASE ~t.exists \/ noX -> <<>>
                    [] query = Q_EMPTY -> <<>>
                    [] query = Q_DUP ->
                         [i \in 1..Len(t.rows) |-> t.rows[i] \o t.rows[i]]
                    [] query = Q_XA ->
                         SelectSeq(t.rows,
                                   LAMBDA r : r[IndexOf(t.columns, "x")] = "a")
                    [] OTHER -> t.rows]

\* dict(zip(columns, row)): of a repeated column name the last value stays
DictZip(columns, row) ==
    [c \in Range(columns) |->
        row[CHOOSE i \in 1..Len(columns) :
                /\ columns[i] = c
                /\ \A j \in 1..Len(columns) : columns[j] = c => j <= i]]

\* the entry one connection contributes to a fan-out round
Execute(engine, query) ==
    LET cur == Cursor(engine, query)
    IN  IF cur.raised
        THEN [success |-> FALSE, error |-> cur.msg]
        ELSE [success |-> TRUE,
              columns |-> cur.columns,
              data |-> [i \in 1..Len(cur.rows) |->
                            DictZip(cur.columns, cur.rows[i])],
              row_count |-> Len(cur.rows)]

NotFound == [success |-> FALSE, error |-> "Connection not found"]

\* MultiDBManager.execute_on_all: every registered connection, in dict order
execute_on_all(query) ==
    [i \in 1..Len(connections) |->
        <<connections[i][1], Execute(connections[i][2], query)>>]

-----------------------------------------------------------------------------
(* MultiDBQueryTool._run: the connections argument is a string; it is      *)
(* modelled by the pieces that split(",") cuts it into.                    *)

Pieces == {"a", "b ", "c", "All"}

\* str.lower() and str.strip() on the pieces
Lower(p) == IF p = "All" THEN "all" ELSE p
Strip(p) == IF p = "b " THEN "b" ELSE p

MaxRequested == 2

ConnectionArgs ==
    UNION {[1..n -> Pieces] : n \in 1..MaxRequested}

\* lines 79-82
ConnList(arg) ==
    IF Len(arg) = 1 /\ Lower(arg[1]) = "all"
    THEN list_connections
    ELSE [i \in 1..Len(arg) |-> Strip(arg[i])]

\* the body of the loop of lines 90-115, for one name
FanoutEntry(conn_name, query) ==
    IF ~HasKey(connections, conn_name)
    THEN NotFound
    ELSE Execute(DictAt(connections, conn_name), query)

RECURSIVE FanoutFromAbort(_, _, _, _)
\* the loop without the try of lines 99-115 around each connection: the
\* first failing execution ends the round
FanoutFromAbort(conn_list, query, i, results) ==
    IF i > Len(conn_list) THEN results
    ELSE LET e == FanoutEntry(conn_list[i], query)
         IN  IF ~e.success /\ HasKey(connections, conn_list[i])
             THEN DictSet(results, conn_list[i], e)
             ELSE FanoutFromAbort(conn_list, query, i + 1,
                                  DictSet(results, conn_list[i], e))

\* lines 88-115: results[conn_name] = ... for each name of the list in turn
RECURSIVE FanoutFrom(_, _, _, _)
FanoutFrom(conn_list, query, i, results) ==
    IF i > Len(conn_list) THEN results
    ELSE FanoutFrom(conn_list, query, i + 1,
                    DictSet(results, conn_list[i],
                            FanoutEntry(conn_list[i], query)))

Fanout(conn_list, query) == FanoutFrom(conn_list, query, 1, <<>>)

-----------------------------------------------------------------------------
(* The merger.  An operator that may raise returns [raised, msg, value].   *)

Raise(msg) == [raised |-> TRUE, msg |-> msg, value |-> <<>>]
Return(v) == [raised |-> FALSE, msg |-> "", value |-> v]

\* Python's order of str, on the column names and on the cell values in use
ColOrder == <<"_source_db", "id", "x", "y">>
ValOrder == <<"1", "2", "3", "a", "b", "c", "d", "w", "z">>

\* list(s) without sorted(): some other order of the set
SortedColsNot(s) ==
    LET asc == SelectSeq(ColOrder, LAMBDA c : c \in s)
    IN  [i \in 1..Len(asc) |-> asc[Len(asc) + 1 - i]]

\* sorted(list(s)) for a set of column names
SortedCols(s) == SelectSeq(ColOrder, LAMBDA c : c \in s)

RECURSIVE ColumnsOf(_, _)
\* lines 197-198: all_columns.update(result.get("columns", [])) per source
ColumnsOf(results, i) ==
    IF i > Len(results) THEN {}
    ELSE Range(results[i][2].columns) \cup ColumnsOf(results, i + 1)

RECURSIVE FillRow(_, _, _, _)
\* lines 210-211: row_with_source[col] = row.get(col, None), column by column
FillRow(row_with_source, row, all_columns, i) ==
    IF i > Len(all_columns) THEN row_with_source
    ELSE LET col == all_columns[i]
             v == IF col \in DOMAIN row THEN row[col] ELSE None
         IN  FillRow((col :> v) @@ row_with_source, row, all_columns, i + 1)

\* lines 207-212 for one source
SourceRows(db_name, data, all_columns) ==
    [i \in 1..Len(data) |->
        FillRow(("_source_db" :> db_name), data[i], all_columns, 1)]

RECURSIVE UnionRowsPrepend(_, _, _)
\* each source's rows put in front of the rows collected so far
UnionRowsPrepend(results, all_columns, i) ==
    IF i > Len(results) THEN <<>>
    ELSE UnionRowsPrepend(results, all_columns, i + 1)
             \o SourceRows(results[i][1], results[i][2].data, all_columns)

RECURSIVE UnionRows(_, _, _)
\* lines 203-212
UnionRows(results, all_columns, i) ==
    IF i > Len(results) THEN <<>>
    ELSE SourceRows(results[i][1], results[i][2].data, all_columns)
             \o UnionRows(results, all_columns, i + 1)

RowsPerSource(results) ==
    [i \in 1..Len(results) |-> <<results[i][1], results[i][2].row_count>>]

_union_merge(results) ==
    LET all_columns == SortedCols(ColumnsOf(results, 1))
        all_data == UnionRows(results, all_columns, 1)
    IN  [success |-> TRUE,
         merge_type |-> "union",
         source_databases |-> Keys(results),
         columns |-> <<"_source_db">> \o all_columns,
         data |-> all_data,
         row_count |-> Len(all_data),
         metadata |-> [total_rows |-> Len(all_data),
                       source_count |-> Len(results),
                       rows_per_source |-> RowsPerSource(results)]]

-----------------------------------------------------------------------------
(* Join merge.  A DataFrame is [columns, rows]: the column order and the   *)
(* rows as functions of the column name.                                   *)

\* the distinct elements of a sequence, in order of first occurrence
Dedupe(s) ==
    SelectSeq([i \in 1..Len(s) |->
                  IF \E j \in 1..(i - 1) : s[j] = s[i] THEN <<>> ELSE <<s[i]>>],
              LAMBDA e : e # <<>>)

Flatten1(s) == [i \in 1..Len(s) |-> s[i][1]]

\* pd.DataFrame(data): the columns are the keys of the row dicts, in the
\* order dict(zip(columns, row)) inserted them
DataFrame(result) ==
    [columns |-> Flatten1(Dedupe(result.columns)), rows |-> result.data]

\* the rename with the source name in front of the column name
RenameColPrefixed(col, merge_key, db_name) ==
    IF col # merge_key THEN db_name \o "_" \o col ELSE col

\* df.rename(columns={col: f"{col}_{db_name}" if col != merge_key else col})
RenameCol(col, merge_key, db_name) ==
    IF col # merge_key THEN col \o "_" \o db_name ELSE col

Rename(df, merge_key, db_name) ==
    LET new == [i \in 1..Len(df.columns) |->
                    RenameCol(df.columns[i], merge_key, db_name)]
        old(c) == df.columns[CHOOSE i \in 1..Len(new) : new[i] = c]
    IN  [columns |-> new,
         rows |-> [r \in 1..Len(df.rows) |->
                      [c \in Range(new) |-> df.rows[r][old(c)]]]]

\* lines 245-262: the frames of the sources that returned rows, or the
\* ValueError of the first such source whose columns lack merge_key
RECURSIVE Frames(_, _, _, _)
Frames(results, merge_key, i, dfs) ==
    IF i > Len(results) THEN Return(dfs)
    ELSE LET db_name == results[i][1]
             result == results[i][2]
             df == DataFrame(result)
         IN  IF result.data = <<>>
             THEN Frames(results, merge_key, i + 1, dfs)
             ELSE IF merge_key \notin Range(df.columns)
             THEN Raise("Merge key '" \o merge_key \o "' not found in "
                            \o db_name)
             ELSE Frames(results, merge_key, i + 1,
                         Append(dfs, <<db_name,
                                       Rename(df, merge_key, db_name)>>))

KeyValues(df, key) == {df.rows[i][key] : i \in 1..Len(df.rows)}

\* the rows of df with key value k, or one all-NaN row when it has none
Matching(df, key, k) ==
    LET m == SelectSeq(df.rows, LAMBDA r : r[key] = k)
    IN  IF m # <<>> THEN m
        ELSE << [c \in Range(df.columns) |-> IF c = key THEN k ELSE NaN] >>

\* the pairs of two row sequences, left-major
Cross(ls, rs) ==
    [i \in 1..(Len(ls) * Len(rs)) |->
        rs[((i - 1) % Len(rs)) + 1] @@ ls[((i - 1) \div Len(rs)) + 1]]

RECURSIVE OuterRows(_, _, _, _, _)
OuterRows(left, right, key, keys, i) ==
    IF i > Len(keys) THEN <<>>
    ELSE Cross(Matching(left, key, keys[i]), Matching(right, key, keys[i]))
             \o OuterRows(left, right, key, keys, i + 1)

\* pd.merge(left, right, on=key, how=how, suffixes=('', suffix)): the keys
\* of both frames (outer) or of each frame (inner) in sorted order; a non-key
\* column name both frames hold gets the suffix on the right
PdMergeHow(left, right, key, suffix, how) ==
    LET both == (Range(left.columns) \cap Range(right.columns)) \ {key}
        rcols == [i \in 1..Len(right.columns) |->
                     IF right.columns[i] \in both
                     THEN right.columns[i] \o suffix ELSE right.columns[i]]
        old(c) == right.columns[CHOOSE i \in 1..Len(rcols) : rcols[i] = c]
        right2 == [columns |-> rcols,
                   rows |-> [r \in 1..Len(right.rows) |->
                                [c \in Range(rcols) |-> right.rows[r][old(c)]]]]
        keys == SelectSeq(ValOrder,
                          LAMBDA v : IF how = "outer"
                                     THEN v \in KeyValues(left, key)
                                                \cup KeyValues(right, key)
                                     ELSE v \in KeyValues(left, key)
                                                \cap KeyValues(right, key))
    IN  [columns |-> left.columns
                         \o SelectSeq(rcols, LAMBDA c : c # key),
         rows |-> OuterRows(left, right2, key, keys, 1)]

PdMergeInner(left, right, key, suffix) ==
    PdMergeHow(left, right, key, suffix, "inner")

\* lines 273-279
PdMerge(left, right, key, suffix) ==
    PdMergeHow(left, right, key, suffix, "outer")

RECURSIVE MergeFrames(_, _, _, _)
\* lines 268-279: the chain of outer joins over dfs, in dict order
MergeFrames(dfs, merge_key, i, merged_df) ==
    IF i > Len(dfs) THEN merged_df
    ELSE MergeFrames(dfs, merge_key, i + 1,
                     PdMerge(merged_df, dfs[i][2], merge_key,
                             "_" \o dfs[i][1]))

_join_merge(results, merge_key) ==
    LET frames == Frames(results, merge_key, 1, <<>>)
        dfs == frames.value
    IN  IF frames.raised THEN frames
        ELSE IF dfs = <<>> THEN Raise("No data available for join")
        ELSE LET merged_df == MergeFrames(dfs, merge_key, 2, dfs[1][2])
             IN  Return([success |-> TRUE,
                         merge_type |-> "join",
                         merge_key |-> merge_key,
                         source_databases |-> Keys(results),
                         columns |-> merged_df.columns,
                         data |-> merged_df.rows,
                         row_count |-> Len(merged_df.rows),
                         metadata |->
                             [total_rows |-> Len(merged_df.rows),
                              source_count |-> Len(results),
                              join_type |-> "outer",
                              rows_per_source |-> RowsPerSource(results)]])

\* lines 166-169
Successful(results) == SelectSeq(results, LAMBDA e : e[2].success)

\* _merge_results without the check of lines 171-172
_merge_results_unchecked(results, merge_type, merge_key) ==
    LET successful_results == Successful(results)
    IN  IF merge_type = "union"
        THEN Return(_union_merge(successful_results))
        ELSE IF merge_type = "join"
        THEN IF merge_key \in {None, ""}
             THEN Raise("merge_key is required for join operations")
             ELSE _join_merge(successful_results, merge_key)
        ELSE Raise("Invalid merge_type: " \o merge_type)

_merge_results(results, merge_type, merge_key) ==
    LET successful_results == Successful(results)
    IN  IF successful_results = <<>>
        THEN Raise("No successful results to merge")
        ELSE IF merge_type = "union"
        THEN Return(_union_merge(successful_results))
        ELSE IF merge_type = "join"
        THEN IF merge_key \in {None, ""}
             THEN Raise("merge_key is required for join operations")
             ELSE _join_merge(successful_results, merge_key)
        ELSE Raise("Invalid merge_type: " \o merge_type)

-----------------------------------------------------------------------------
(* MultiDBQueryTool._run.  Its return value is a string: a plain message,  *)
(* or json.dumps of the result mapping, of the merged dataset, or of the   *)
(* error note; output.kind says which, output.body is what was dumped.     *)

MergeKeys == {None, "", "id", "x"}

MergeArgs ==
    {[merge_results |-> FALSE, merge_type |-> "union", merge_key |-> None],
     [merge_results |-> TRUE, merge_type |-> "union", merge_key |-> None],
     [merge_results |-> TRUE, merge_type |-> "concat", merge_key |-> None]}
    \cup {[merge_results |-> TRUE, merge_type |-> "join", merge_key |-> k] :
              k \in MergeKeys}

\* lines 117-138 without the inner try: a merge failure reaches the outer
\* handler of lines 140-142
OutputEscalates(results, m) ==
    IF m.merge_results /\ Len(results) > 1
    THEN LET merged == _merge_results(results, m.merge_type, m.merge_key)
         IN  IF merged.raised
             THEN [kind |-> "text",
                   body |-> "Failed to execute multi-DB query: " \o merged.msg]
             ELSE [kind |-> "merged", body |-> merged.value]
    ELSE [kind |-> "results", body |-> results]

\* lines 117-138 without the len(results) > 1 test of line 118
OutputMergesOne(results, m) ==
    IF m.merge_results
    THEN LET merged == _merge_results(results, m.merge_type, m.merge_key)
         IN  IF merged.raised
             THEN [kind |-> "merge_error",
                   body |-> [merge_error |-> merged.msg,
                             note |-> "Returning unmerged results",
                             individual_results |-> results]]
             ELSE [kind |-> "merged", body |-> merged.value]
    ELSE [kind |-> "results", body |-> results]

\* lines 117-138: what is returned once the fan-out round has its results
Output(results, m) ==
    IF m.merge_results /\ Len(results) > 1
    THEN LET merged == _merge_results(results, m.merge_type, m.merge_key)
         IN  IF merged.raised
             THEN [kind |-> "merge_error",
                   body |-> [merge_error |-> merged.msg,
                             note |-> "Returning unmerged results",
                             individual_results |-> results]]
             ELSE [kind |-> "merged", body |-> merged.value]
    ELSE [kind |-> "results", body |-> results]

_run(arg, query, m) ==
    LET conn_list == ConnList(arg)
        results == Fanout(conn_list, query)
    IN  [op |-> "query",
         connections |-> arg,
         query |-> query,
         merge |-> m,
         conn_list |-> conn_list,
         results |-> IF conn_list = <<>> THEN <<>> ELSE results,
         output |-> IF conn_list = <<>>
                    THEN [kind |-> "text",
                          body |-> "No database connections available"]
                    ELSE Output(results, m)]

RunTool ==
    \E arg \in ConnectionArgs, query \in Queries, m \in MergeArgs :
        /\ last = NoCall
        /\ last' = _run(arg, query, m)
        /\ UNCHANGED <<connections, metadata>>
        /\ UNCHANGED <<mcpVars, iter, auxVars>>

ExecuteOnAll ==
    \E query \in Queries :
        /\ last = NoCall
        /\ last' = [op |-> "execute_on_all", query |-> query,
                    results |-> execute_on_all(query)]
        /\ UNCHANGED <<connections, metadata>>
        /\ UNCHANGED <<mcpVars, iter, auxVars>>

-----------------------------------------------------------------------------

InitMultiDB ==
    /\ connections = <<>>
    /\ metadata = <<>>
    /\ last = NoCall
    /\ api_key = None
    /\ sessions = <<>>
    /\ agents = <<>>
    /\ uuids = 0
    /\ made = 0
    /\ response = NoCall
    /\ iter = NoIter
    /\ cli = NoCall
    /\ client = NoClient
    /\ task = NoCall

\* the caller takes the return value of the call; the next call may start
ReturnToCaller ==
    /\ last # NoCall
    /\ last' = NoCall
    /\ UNCHANGED <<connections, metadata>>
    /\ UNCHANGED <<mcpVars, iter, auxVars>>

NextMultiDB ==
    \/ AddConnection
    \/ RemoveConnection
    \/ RunTool
    \/ ExecuteOnAll
    \/ ReturnToCaller

SpecMultiDB == InitMultiDB /\ [][NextMultiDB]_vars

-----------------------------------------------------------------------------
(* ExecuteQueryTool: the single-connection execute operation.  A statement *)
(* is a string; Chars gives its characters, on which upper(), strip() and  *)
(* startswith() are computed.                                              *)

S_DROP == "DROP TABLE t"
S_drop == "  drop table t"
S_NLDROP == "\nDROP TABLE t "
S_DELETE == "Delete from t"
S_TRUNCATE == "TRUNCATE t"
S_UPDATE == "update t set x=1"
S_ALTER == "alter table t"
S_CREATE == "Create table u"
S_INSERT == "INSERT INTO t VALUES (1)"
S_TWO == "SELECT 1; DROP TABLE t"
S_COMMENT == "-- x\nDROP TABLE t"
G_SELECT == "SELECT * FROM t;"
G_DROP == "DROP TABLE t;"

Statements ==
    {Q_STAR, Q_EMPTY, S_DROP, S_drop, S_NLDROP, S_DELETE, S_TRUNCATE,
     S_UPDATE, S_ALTER, S_CREATE, S_INSERT, S_TWO, S_COMMENT, G_SELECT,
     G_DROP}

Chars(s) ==
    CASE s = Q_STAR ->
           <<"S", "E", "L", "E", "C", "T", " ", "*", " ", "F", "R", "O",
             "M", " ", "t">>
      [] s = Q_EMPTY ->
           <<"S", "E", "L", "E", "C", "T", " ", "*", " ", "F", "R", "O",
             "M", " ", "t", " ", "W", "H", "E", "R", "E", " ", "1", "=",
             "0">>
      [] s = S_DROP ->
           <<"D", "R", "O", "P", " ", "T", "A", "B", "L", "E", " ", "t">>
      [] s = G_SELECT ->
           <<"S", "E", "L", "E", "C", "T", " ", "*", " ", "F", "R", "O",
             "M", " ", "t", ";">>
      [] s = G_DROP ->
           <<"D", "R", "O", "P", " ", "T", "A", "B", "L", "E", " ", "t",
             ";">>
      [] s = S_drop ->
           <<" ", " ", "d", "r", "o", "p", " ", "t", "a", "b", "l", "e",
             " ", "t">>
      [] s = S_NLDROP ->
           <<"\n", "D", "R", "O", "P", " ", "T", "A", "B", "L", "E", " ",
             "t", " ">>
      [] s = S_DELETE ->
           <<"D", "e", "l", "e", "t", "e", " ", "f", "r", "o", "m", " ",
             "t">>
      [] s = S_TRUNCATE ->
           <<"T", "R", "U", "N", "C", "A", "T", "E", " ", "t">>
      [] s = S_UPDATE ->
           <<"u", "p", "d", "a", "t", "e", " ", "t", " ", "s", "e", "t",
             " ", "x", "=", "1">>
      [] s = S_ALTER ->
           <<"a", "l", "t", "e", "r", " ", "t", "a", "b", "l", "e", " ",
             "t">>
      [] s = S_CREATE ->
           <<"C", "r", "e", "a", "t", "e", " ", "t", "a", "b", "l", "e",
             " ", "u">>
      [] s = S_INSERT ->
           <<"I", "N", "S", "E", "R", "T", " ", "I", "N", "T", "O", " ",
             "t", " ", "V", "A", "L", "U", "E", "S", " ", "(", "1", ")">>
      [] s = S_TWO ->
           <<"S", "E", "L", "E", "C", "T", " ", "1", ";", " ", "D", "R",
             "O", "P", " ", "T", "A", "B", "L", "E", " ", "t">>
      [] s = S_COMMENT ->
           <<"-", "-", " ", "x", "\n", "D", "R", "O", "P", " ", "T", "A",
             "B", "L", "E", " ", "t">>

\* str.upper() on one character
UpperChar(c) ==
    CASE c = "a" -> "A"
      [] c = "b" -> "B"
      [] c = "c" -> "C"
      [] c = "d" -> "D"
      [] c = "e" -> "E"
      [] c = "f" -> "F"
      [] c = "g" -> "G"
      [] c = "h" -> "H"
      [] c = "i" -> "I"
      [] c = "j" -> "J"
      [] c = "k" -> "K"
      [] c = "l" -> "L"
      [] c = "m" -> "M"
      [] c = "n" -> "N"
      [] c = "o" -> "O"
      [] c = "p" -> "P"
      [] c = "q" -> "Q"
      [] c = "r" -> "R"
      [] c = "s" -> "S"
      [] c = "t" -> "T"
      [] c = "u" -> "U"
      [] c = "v" -> "V"
      [] c = "w" -> "W"
      [] c = "x" -> "X"
      [] c = "y" -> "Y"
      [] c = "z" -> "Z"
      [] OTHER -> c

StrUpper(s) == [i \in 1..Len(s) |-> UpperChar(s[i])]

Whitespace == {" ", "\n", "\t"}

RECURSIVE LStrip(_)
LStrip(s) ==
    IF s # <<>> /\ Head(s) \in Whitespace THEN LStrip(Tail(s)) ELSE s

RECURSIVE RStrip(_)
RStrip(s) ==
    IF s # <<>> /\ s[Len(s)] \in Whitespace
    THEN RStrip(SubSeq(s, 1, Len(s) - 1))
    ELSE s

\* str.strip()
StrStrip(s) == LStrip(RStrip(s))

\* str.startswith(prefix)
StartsWith(s, prefix) ==
    Len(s) >= Len(prefix) /\ SubSeq(s, 1, Len(prefix)) = prefix

destructive_keywords ==
    << <<"D", "R", "O", "P">>,
       <<"D", "E", "L", "E", "T", "E">>,
       <<"T", "R", "U", "N", "C", "A", "T", "E">>,
       <<"U", "P", "D", "A", "T", "E">>,
       <<"A", "L", "T", "E", "R">>,
       <<"C", "R", "E", "A", "T", "E">> >>

\* the guard without upper(): keywords are found in capitals only
_is_destructive_query_cased(query) ==
    LET query_upper == StrStrip(Chars(query))
    IN  \E i \in 1..Len(destructive_keywords) :
            StartsWith(query_upper, destructive_keywords[i])

\* ExecuteQueryTool._is_destructive_query
_is_destructive_query(query) ==
    LET query_upper == StrStrip(StrUpper(Chars(query)))
    IN  \E i \in 1..Len(destructive_keywords) :
            StartsWith(query_upper, destructive_keywords[i])

\* what the database answers to conn.execute(text(sql_query)) and to the
\* fetch that follows: a statement that returns no rows lets the fetch raise
Result(engine, sql_query) ==
    IF sql_query \in Queries \cup {G_SELECT} THEN Cursor(engine, sql_query)
    ELSE [raised |-> TRUE,
          msg |-> IF sql_query = S_TWO
                  THEN "You can only execute one statement at a time."
                  ELSE "This result object does not return rows.",
          columns |-> <<>>, rows |-> <<>>]

NoConnectionText ==
    "No database connection. Please connect to a database first."

DestructiveText ==
    "Destructive queries (DROP, DELETE, TRUNCATE, UPDATE) are not allowed"

\* a returned string that is no JSON
Text(t) == [kind |-> "text", text |-> t]

\* json.dumps(error_info)
ErrorInfo(error, sql_query) ==
    [kind |-> "json", success |-> FALSE, error |-> error,
     query |-> sql_query]

\* json.dumps(result_info): fetchmany(max_rows) of the rows
ResultInfo(cur, max_rows) ==
    LET n == IF Len(cur.rows) < max_rows THEN Len(cur.rows) ELSE max_rows
    IN  [kind |-> "json", success |-> TRUE, row_count |-> n,
         columns |-> cur.columns,
         data |-> [i \in 1..n |-> DictZip(cur.columns, cur.rows[i])],
         truncated |-> n >= max_rows]

\* ExecuteQueryTool._run: the string returned, how often engine.connect()
\* was called and the statements that reached the database
ExecuteQueryTool_run(engine, sql_query, max_rows) ==
    IF engine = None
    THEN [connects |-> 0, sent |-> <<>>, out |-> Text(NoConnectionText)]
    ELSE IF _is_destructive_query(sql_query)
    THEN [connects |-> 0, sent |-> <<>>, out |-> Text(DestructiveText)]
    ELSE IF engine \notin DbFiles
    THEN [connects |-> 1, sent |-> <<>>,
          out |-> ErrorInfo("unable to open database file", sql_query)]
    ELSE LET cur == Result(engine, sql_query)
         IN  [connects |-> 1, sent |-> <<sql_query>>,
              out |-> IF cur.raised THEN ErrorInfo(cur.msg, sql_query)
                      ELSE ResultInfo(cur, max_rows)]

Engines == {None} \cup DbNames

MaxRowsArgs == {1, 2, 100}

ExecuteQuery ==
    \E engine \in Engines, sql_query \in Statements, max_rows \in MaxRowsArgs :
        /\ last = NoCall
        /\ last' = [op |-> "execute", engine |-> engine,
                    sql_query |-> sql_query, max_rows |-> max_rows,
                    ret |-> ExecuteQueryTool_run(engine, sql_query, max_rows)]
        /\ UNCHANGED <<connections, metadata>>
        /\ UNCHANGED <<mcpVars, iter, auxVars>>

NextExecute ==
    \/ ExecuteQuery
    \/ ReturnToCaller

SpecExecute == InitMultiDB /\ [][NextExecute]_vars

-----------------------------------------------------------------------------
(* The MCP server.  A session's context is an MCPContext; its agent is the *)
(* part of a QueryAgent the dispatcher reads and writes:                   *)
(*   obj      which QueryAgent object it is (its construction number)     *)
(*   engine   connect_db_tool._engine                                     *)
(*   shared   get_schema_tool.engine and execute_query_tool.engine        *)
(*   history  len(chat_history)                                           *)

\* a context that starts as a connected one
MCPContextConnected(session_id) ==
    [session_id |-> session_id,
     connected |-> TRUE,
     db_type |-> "sqlite",
     db_name |-> "a.db",
     schema_loaded |-> FALSE,
     table_count |-> 0,
     table_names |-> <<>>,
     last_query |-> None,
     last_result_count |-> None]

MCPContext(session_id) ==
    [session_id |-> session_id,
     connected |-> FALSE,
     db_type |-> None,
     db_name |-> None,
     schema_loaded |-> FALSE,
     table_count |-> 0,
     table_names |-> <<>>,
     last_query |-> None,
     last_result_count |-> None]

\* QueryAgent.__init__, lines 39-43: the key comes from the settings
AgentRaises == api_key = None

NoKeyError ==
    "OpenAI API key is required. Set OPENAI_API_KEY environment variable."

\* one agent object handed to every session
QueryAgentShared(obj) ==
    [obj |-> 1, engine |-> None, shared |-> None, history |-> 0]

\* a QueryAgent whose chat_history is not empty when __init__ returns
QueryAgentWithHistory(obj) ==
    [obj |-> obj, engine |-> None, shared |-> None, history |-> 2]

QueryAgent(obj) ==
    [obj |-> obj, engine |-> None, shared |-> None, history |-> 0]

\* ConnectDBTool.is_connected: an engine is set and SELECT 1 succeeds on it
is_connected(agent) == agent.engine # None /\ agent.engine \in DbFiles

\* inspector.get_table_names() of a reachable file
TableNames(db) == IF Catalog(db).exists THEN <<"t">> ELSE <<>>

MaxHistory == 4

\* the messages ConnectDBTool._run returns
Connected == "Successfully connected to database"
Unsupported == "Unsupported database type"
ConnectFailed == "Failed to connect to database"

\* ConnectDBTool._run, lines 59-85: what the attempt returns
ConnectMessage(db_type, db_name) ==
    IF db_type \notin {"sqlite", "postgresql", "mysql"} THEN Unsupported
    ELSE IF db_name \in DbFiles THEN Connected
    ELSE ConnectFailed

\* QueryAgent.connect_database over ConnectDBTool._run: an unsupported type
\* returns before the engine is replaced; otherwise the engine is replaced
\* and then probed, and the engine is shared with the other tools only when
\* the agent is connected afterwards
connect_database(agent, db_type, db_name) ==
    LET a1 == IF db_type \in {"sqlite", "postgresql", "mysql"}
              THEN [agent EXCEPT !.engine = db_name]
              ELSE agent
    IN  IF is_connected(a1) THEN [a1 EXCEPT !.shared = a1.engine] ELSE a1

\* a schema tool that answers with an empty schema when it has no engine
get_schema_empty(agent) ==
    [json |-> TRUE, agent |-> agent, tables |-> <<>>]

\* GetSchemaTool._run: the schema as JSON, or a message that is no JSON
get_schema(agent) ==
    IF agent.shared = None \/ agent.shared \notin DbFiles
    THEN [json |-> FALSE, agent |-> agent, tables |-> <<>>]
    ELSE [json |-> TRUE, agent |-> agent,
          tables |-> TableNames(agent.shared)]

\* what llm.invoke does: it raises, or it answers with a statement (here
\* as _clean_sql_query leaves it)
LlmRaises == "llm.invoke raises"
LlmAnswers == {LlmRaises, G_SELECT, G_DROP}

InvalidSchemaJson == "Invalid schema JSON"
GenerateFailed == "Failed to generate query"

\* the returns of GenerateQueryTool._run that start with the failure mark
GenerateErrors == {InvalidSchemaJson, GenerateFailed}

\* GenerateQueryTool._run on a schema string that is JSON or is not
generate_query(schema_is_json, llm) ==
    IF ~schema_is_json THEN InvalidSchemaJson
    ELSE IF llm = LlmRaises THEN GenerateFailed
    ELSE llm

NoResult == [kind |-> "none"]

\* the max_rows default of ExecuteQueryTool._run
DefaultMaxRows == 100

\* the flow without the early return of lines 191-193: what the generation
\* returned is recorded as the statement whatever it is
execute_query_flow_unchecked(agent, llm) ==
    LET schema == get_schema(agent)
        a1 == schema.agent
        sql_query == generate_query(schema.json, llm)
    IN  [sql_query |-> sql_query, error |-> None,
         execution_result |-> NoResult, agent |-> a1]

\* QueryAgent.execute_query_flow: results["sql_query"] is set when the
\* generation did not fail; the statement is executed on the shared engine
\* and the history grows when the flow ran through
execute_query_flow(agent, llm) ==
    LET schema == get_schema(agent)
        a1 == schema.agent
        sql_query == generate_query(schema.json, llm)
    IN  IF sql_query \in GenerateErrors
        THEN [sql_query |-> None, error |-> sql_query,
              execution_result |-> NoResult, agent |-> a1]
        ELSE [sql_query |-> sql_query, error |-> None,
              execution_result |->
                  ExecuteQueryTool_run(a1.shared, sql_query,
                                       DefaultMaxRows).out,
              agent |-> [a1 EXCEPT !.history = a1.history + 2]]

Actions == {"connect_db", "get_schema", "generate_query", "execute_query",
            "analyze_results", "get_status", "chat"}

ConnectParams ==
    {[db_type |-> "sqlite", db_name |-> "a.db"],
     [db_type |-> "sqlite", db_name |-> "/nodir/x.db"],
     [db_type |-> "oracle", db_name |-> "a.db"]}

NoParams == [db_type |-> None, db_name |-> None]

\* the parameters of a chat request: a message with a query keyword and one
\* without; a request without a message has NoParams
ChatParams == {[message |-> "show tables"], [message |-> "hello"]}

\* a dispatcher whose EXECUTE_QUERY records a row count in the context
_execute_action_counts_rows(agent, context, action, parameters, llm, is_query) ==
    [raised |-> FALSE, msg |-> "", data |-> "results", agent |-> agent,
     context |-> IF action = "execute_query"
                 THEN [context EXCEPT !.last_result_count = "2"]
                 ELSE context]

\* a dispatcher whose GET_STATUS writes the context
_execute_action_status_writes(agent, context, action, parameters, llm, is_query) ==
    [raised |-> FALSE, msg |-> "", data |-> "status", agent |-> agent,
     context |-> IF action = "get_status"
                 THEN [context EXCEPT !.last_query = "status"]
                 ELSE context]

\* MCPServer._execute_action: the agent and the context afterwards, and the
\* data returned or the exception raised.  llm: what the model answers;
\* is_query: the chat message holds a query keyword
_execute_action(agent, context, action, parameters, llm, is_query) ==
    CASE action = "connect_db" ->
           LET a1 == connect_database(agent, parameters.db_type,
                                      parameters.db_name)
           IN  [raised |-> FALSE, msg |-> "",
                data |-> ConnectMessage(parameters.db_type,
                                        parameters.db_name),
                agent |-> a1,
                context |-> IF is_connected(a1)
                            THEN [context EXCEPT
                                     !.connected = TRUE,
                                     !.db_type = parameters.db_type,
                                     !.db_name = parameters.db_name]
                            ELSE context]
      [] action = "get_schema" ->
           LET schema == get_schema(agent)
           IN  IF ~schema.json
               THEN [raised |-> TRUE, msg |-> "Expecting value",
                     data |-> None, agent |-> schema.agent,
                     context |-> context]
               ELSE [raised |-> FALSE, msg |-> "", data |-> "schema",
                     agent |-> schema.agent,
                     context |-> [context EXCEPT
                                     !.schema_loaded = TRUE,
                                     !.table_count = Len(schema.tables),
                                     !.table_names = schema.tables]]
      [] action = "generate_query" ->
           LET schema == get_schema(agent)
           IN  [raised |-> FALSE, msg |-> "",
                data |-> generate_query(schema.json, llm),
                agent |-> schema.agent, context |-> context]
      [] action = "execute_query" ->
           LET results == execute_query_flow(agent, llm)
           IN  [raised |-> FALSE, msg |-> "",
                data |-> [sql_query |-> results.sql_query,
                          execution_result |-> results.execution_result,
                          error |-> results.error],
                agent |-> results.agent,
                context |-> IF results.sql_query # None
                            THEN [context EXCEPT
                                     !.last_query = results.sql_query]
                            ELSE context]
      [] action = "analyze_results" ->
           [raised |-> FALSE, msg |-> "", data |-> "analysis",
            agent |-> agent, context |-> context]
      [] action = "get_status" ->
           [raised |-> FALSE, msg |-> "", data |-> "status",
            agent |-> agent, context |-> context]
      [] action = "chat" ->
           IF parameters \notin ChatParams
           THEN \* user_input.lower() of agent.py line 292 on None
                [raised |-> TRUE,
                 msg |-> "'NoneType' object has no attribute 'lower'",
                 data |-> None, agent |-> agent, context |-> context]
           ELSE [raised |-> FALSE, msg |-> "", data |-> "response",
                 agent |-> IF is_query /\ is_connected(agent)
                           THEN execute_query_flow(agent, llm).agent
                           ELSE agent,
                 context |-> context]

\* uuid.uuid4(): ids nobody has seen before
UuidPool == <<"u1", "u2", "u3", "u4">>

MaxUuids == 1
MaxAgents == 2

ClientIds == {"s1"}

\* the session ids a client can send: none, an empty one, one of its own
\* choice, or one a response has carried
RequestIds ==
    {None, ""} \cup ClientIds \cup {UuidPool[i] : i \in 1..uuids}

MCPResponse(success, data, error, session_id, context) ==
    [success |-> success, data |-> data, error |-> error,
     session_id |-> session_id, context |-> context]

StoreBefore == [sessions |-> sessions, agents |-> agents]

\* POST /mcp/action, lines 75-111
execute_action(request, llm, is_query) ==
    LET generated == request.session_id \in {None, ""}
        session_id == IF generated THEN UuidPool[uuids + 1]
                      ELSE request.session_id
        create == ~HasKey(sessions, session_id)
        sessions1 == IF create
                     THEN DictSet(sessions, session_id, MCPContext(session_id))
                     ELSE sessions
        failure(error, sessions2, agents2, made2, dispatched) ==
            /\ sessions' = sessions2
            /\ agents' = agents2
            /\ made' = made2
            /\ response' =
                   [op |-> "action", request |-> request,
                    sid |-> session_id, before |-> StoreBefore,
                    dispatched |-> dispatched,
                    resp |-> MCPResponse(FALSE, None, error,
                                         request.session_id, None)]
    IN  /\ uuids' = IF generated THEN uuids + 1 ELSE uuids
        /\ IF create /\ AgentRaises
           THEN \* line 84 raises after line 80 stored the context
                failure(NoKeyError, sessions1, agents, made, FALSE)
           ELSE LET agents1 == IF create
                               THEN DictSet(agents, session_id,
                                            QueryAgent(made + 1))
                               ELSE agents
                    made1 == IF create THEN made + 1 ELSE made
                IN  IF ~HasKey(agents1, session_id)
                    THEN \* line 86: KeyError
                         failure("'" \o session_id \o "'", sessions1,
                                 agents1, made1, FALSE)
                    ELSE LET done == _execute_action(
                                         DictAt(agents1, session_id),
                                         DictAt(sessions1, session_id),
                                         request.action, request.parameters,
                                         llm, is_query)
                             agents2 == DictSet(agents1, session_id,
                                                done.agent)
                             sessions2 ==
                                 DictSet(sessions1, session_id, done.context)
                         IN  IF done.raised
                             THEN failure(done.msg, sessions2, agents2,
                                          made1, TRUE)
                             ELSE /\ sessions' = sessions2
                                  /\ agents' = agents2
                                  /\ made' = made1
                                  /\ response' =
                                       [op |-> "action", request |-> request,
                                        sid |-> session_id,
                                        before |-> StoreBefore,
                                        dispatched |-> TRUE,
                                        resp |-> MCPResponse(
                                                   TRUE, done.data, None,
                                                   session_id, done.context)]

Requests ==
    {[action |-> a, session_id |-> sid, parameters |-> prm] :
        a \in Actions, sid \in RequestIds,
        prm \in ConnectParams \cup {NoParams} \cup ChatParams}

ExecuteAction ==
    \E request \in Requests, llm \in LlmAnswers, is_query \in BOOLEAN :
        /\ response = NoCall
        /\ (request.action = "connect_db") =
               (request.parameters \in ConnectParams)
        \* the answers of the model and the keywords of the message are
        \* inputs of the actions that read them
        /\ request.action \notin {"generate_query", "execute_query", "chat"}
               => llm = LlmRaises
        /\ request.parameters \in ChatParams => request.action = "chat"
        /\ is_query = (request.parameters = [message |-> "show tables"])
        /\ request.session_id \in {None, ""} => uuids < MaxUuids
        /\ ~HasKey(sessions, request.session_id) => made < MaxAgents
        /\ execute_action(request, llm, is_query)
        /\ \A i \in 1..Len(agents') : agents'[i][2].history <= MaxHistory
        /\ UNCHANGED <<api_key, connections, metadata, last, iter, auxVars>>

\* GET /mcp/context/{session_id}
get_context(session_id) ==
    /\ response' =
           IF ~HasKey(sessions, session_id)
           THEN [op |-> "get_context", sid |-> session_id, status |-> 404,
                 before |-> StoreBefore, context |-> None]
           ELSE [op |-> "get_context", sid |-> session_id, status |-> 200,
                 before |-> StoreBefore,
                 context |-> DictAt(sessions, session_id)]
    /\ UNCHANGED <<sessions, agents, uuids, made>>

\* a deletion that removes the context and leaves the agent in the store
delete_session_keeps_agent(session_id) ==
    IF ~HasKey(sessions, session_id)
    THEN /\ response' = [op |-> "delete", sid |-> session_id, status |-> 404,
                         before |-> StoreBefore]
         /\ UNCHANGED <<sessions, agents, uuids, made>>
    ELSE /\ sessions' = DictDel(sessions, session_id)
         /\ response' = [op |-> "delete", sid |-> session_id,
                         status |-> 200, before |-> StoreBefore]
         /\ UNCHANGED <<agents, uuids, made>>

\* DELETE /mcp/session/{session_id}: a session without an agent loses its
\* context at line 125 and line 126 raises
delete_session(session_id) ==
    IF ~HasKey(sessions, session_id)
    THEN /\ response' = [op |-> "delete", sid |-> session_id, status |-> 404,
                         before |-> StoreBefore]
         /\ UNCHANGED <<sessions, agents, uuids, made>>
    ELSE /\ sessions' = DictDel(sessions, session_id)
         /\ agents' = DictDel(agents, session_id)
         /\ response' = [op |-> "delete", sid |-> session_id,
                         status |-> IF HasKey(agents, session_id)
                                    THEN 200 ELSE 500,
                         before |-> StoreBefore]
         /\ UNCHANGED <<uuids, made>>

GetContext ==
    \E session_id \in RequestIds \ {None, ""} :
        /\ response = NoCall
        /\ get_context(session_id)
        /\ UNCHANGED <<api_key, connections, metadata, last, iter, auxVars>>

DeleteSession ==
    \E session_id \in RequestIds \ {None, ""} :
        /\ response = NoCall
        /\ delete_session(session_id)
        /\ UNCHANGED <<api_key, connections, metadata, last, iter, auxVars>>

\* the client takes the response; the next request may arrive
ReturnResponse ==
    /\ response # NoCall
    /\ response' = NoCall
    /\ UNCHANGED <<api_key, sessions, agents, uuids, made>>
    /\ UNCHANGED <<connections, metadata, last, iter, auxVars>>

\* the server starts with the settings loaded, or with settings = None
InitMCP ==
    /\ connections = <<>>
    /\ metadata = <<>>
    /\ last = NoCall
    /\ api_key \in {"sk-key", None}
    /\ sessions = <<>>
    /\ agents = <<>>
    /\ uuids = 0
    /\ made = 0
    /\ response = NoCall
    /\ iter = NoIter
    /\ cli = NoCall
    /\ client = NoClient
    /\ task = NoCall

NextMCP ==
    \/ ExecuteAction
    \/ GetContext
    \/ DeleteSession
    \/ ReturnResponse

SpecMCP == InitMCP /\ [][NextMCP]_vars

-----------------------------------------------------------------------------
(* Properties of the multi-database surface, read off the last call.       *)

IsQuery == last.op = "query" /\ last.conn_list # <<>>

\* the merge of lines 118-135 was attempted
Attempted == IsQuery /\ last.merge.merge_results /\ Len(last.results) > 1

OkEntries == SelectSeq(last.results, LAMBDA e : e[2].success)

IsUnion == IsQuery /\ last.output.kind = "merged"
               /\ last.output.body.merge_type = "union"

IsJoin == IsQuery /\ last.output.kind = "merged"
              /\ last.output.body.merge_type = "join"

RECURSIVE SumRows(_, _)
\* the rows of the first k entries of a result mapping
SumRows(entries, k) ==
    IF k = 0 THEN 0 ELSE SumRows(entries, k - 1) + Len(entries[k][2].data)

RECURSIVE SumCounts(_, _)
SumCounts(pairs, k) ==
    IF k = 0 THEN 0 ELSE SumCounts(pairs, k - 1) + pairs[k][2]

ColumnUnion(entries) ==
    UNION {Range(entries[k][2].columns) : k \in 1..Len(entries)}

NoRepeat(s) == \A i, j \in 1..Len(s) : s[i] = s[j] => i = j

(* C1: after add_connection(name) returned success, list_connections()    *)
(* holds name exactly once; after remove_connection(name) returned         *)
(* success, name is absent; a remove_connection of an absent name returns  *)
(* "not found" and changes neither dict; and no call changes the           *)
(* membership of any other name.                                           *)
C1_RegistryInvariant ==
    /\ NoRepeat(list_connections)
    /\ KeySet(metadata) = KeySet(connections)
    /\ last.op \in {"add", "remove"} =>
         LET had == KeySet(last.before.connections)
         IN  /\ last.op = "add" /\ last.status = "ok" =>
                  /\ Cardinality({i \in 1..Len(list_connections) :
                                     list_connections[i] = last.name}) = 1
                  /\ KeySet(connections) = had \cup {last.name}
             /\ last.op = "remove" /\ last.status = "ok" =>
                  /\ last.name \notin Range(list_connections)
                  /\ KeySet(connections) = had \ {last.name}
             /\ last.op = "remove" /\ last.name \notin had =>
                  /\ last.status = "not_found"
                  /\ connections = last.before.connections
                  /\ metadata = last.before.metadata
             /\ last.status # "ok" => KeySet(connections) = had

\* a remove of a name that is not registered, while others are
C1_Witness ==
    /\ last.op = "remove"
    /\ last.status = "not_found"
    /\ last.name \notin KeySet(connections)
    /\ Len(connections) = 2

\* what C2 says of one entry of a fan-out round
C2_Entry(name, e, query) ==
    /\ "success" \in DOMAIN e
    /\ IF ~HasKey(connections, name)
       THEN e = [success |-> FALSE, error |-> "Connection not found"]
       ELSE LET cur == Cursor(DictAt(connections, name), query)
            IN  IF cur.raised
                THEN e = [success |-> FALSE, error |-> cur.msg]
                ELSE /\ e.success
                     /\ e.row_count = Len(cur.rows)
                     /\ Len(e.data) = Len(cur.rows)
                     /\ e.columns = cur.columns

(* C2: a fan-out round returns one entry per requested name; an entry is   *)
(* a failure with an error exactly when the name is unregistered or that   *)
(* connection's own execution failed, every other entry is a success with  *)
(* the row count of that connection, whatever happened to the others, and  *)
(* the call as a whole never becomes an error.                             *)
C2_FanoutIsolation ==
    /\ IsQuery =>
         /\ KeySet(last.results) = Range(last.conn_list)
         /\ Len(last.results) = Cardinality(Range(last.conn_list))
         /\ \A i \in 1..Len(last.results) :
                C2_Entry(last.results[i][1], last.results[i][2], last.query)
         /\ last.output.kind \in {"results", "merged", "merge_error"}
         /\ last.output.kind = "results" => last.output.body = last.results
    /\ last.op = "execute_on_all" =>
         /\ Keys(last.results) = list_connections
         /\ \A i \in 1..Len(last.results) :
                C2_Entry(last.results[i][1], last.results[i][2], last.query)

\* three registered connections, the one in the middle broken
C2_Witness ==
    /\ IsQuery
    /\ Len(last.results) = 3
    /\ last.results[1][2].success /\ last.results[1][2].row_count = 2
    /\ ~last.results[2][2].success
    /\ last.results[2][2].error = "no such table: t"
    /\ last.results[3][2].success /\ last.results[3][2].row_count = 2
    /\ last.output.kind = "results"

\* the source whose block of a union holds output row i
SourceOfRow(entries, i) ==
    entries[CHOOSE k \in 1..Len(entries) :
                SumRows(entries, k - 1) < i /\ i <= SumRows(entries, k)][1]

(* C3: in a union merge every output row's _source_db is the name of the   *)
(* source connection that produced the row.                                *)
C3_SourceDbNamesSource ==
    IsUnion =>
        \A i \in 1..Len(last.output.body.data) :
            last.output.body.data[i]["_source_db"] = SourceOfRow(OkEntries, i)

(* C4: in a union merge row_count is the sum of the sources' row counts    *)
(* and of metadata.rows_per_source, and each source's rows are one         *)
(* contiguous block in the source's own row order.                         *)
C4_UnionRowCount ==
    IsUnion =>
        LET out == last.output.body
            src == OkEntries
        IN  /\ out.row_count = SumRows(src, Len(src))
            /\ out.row_count = Len(out.data)
            /\ out.row_count = SumCounts(out.metadata.rows_per_source,
                                         Len(out.metadata.rows_per_source))
            /\ Keys(out.metadata.rows_per_source) = Keys(src)
            /\ \A k \in 1..Len(src) :
                   \A j \in 1..Len(src[k][2].data) :
                       \A col \in DOMAIN src[k][2].data[j] :
                           out.data[SumRows(src, k - 1) + j][col]
                               = src[k][2].data[j][col]

\* two sources with two rows each
C4_Witness ==
    /\ IsUnion
    /\ Len(OkEntries) = 2
    /\ \A k \in 1..2 : Len(OkEntries[k][2].data) = 2
    /\ last.output.body.row_count = 4
    /\ OkEntries[1][2].data # OkEntries[2][2].data

ColRank(c) == IndexOf(ColOrder, c)

(* C5: the columns of a union merge are _source_db followed by the sorted  *)
(* union of the sources' column names, none repeated; every output row has *)
(* exactly those keys, with None for each column its own source lacks.     *)
C5_UnionColumns ==
    IsUnion =>
        LET out == last.output.body
            src == OkEntries
            rest == Tail(out.columns)
        IN  /\ out.columns[1] = "_source_db"
            /\ Range(rest) = ColumnUnion(src)
            /\ \A i, j \in 1..Len(rest) :
                   i < j => ColRank(rest[i]) < ColRank(rest[j])
            /\ \A i \in 1..Len(out.data) :
                   DOMAIN out.data[i] = Range(out.columns)
            /\ \A k \in 1..Len(src) :
                   \A j \in 1..Len(src[k][2].data) :
                       \A col \in ColumnUnion(src) \ Range(src[k][2].columns) :
                           out.data[SumRows(src, k - 1) + j][col] = None

\* the spec's example: [id, x] and [id, y], a row of the first with y None
C5_Witness ==
    /\ IsUnion
    /\ last.output.body.columns = <<"_source_db", "id", "x", "y">>
    /\ last.output.body.data[1]["y"] = None
    /\ last.output.body.data[1]["x"] # None

JoinKey == last.merge.merge_key

JoinRequested ==
    Attempted /\ last.merge.merge_type = "join" /\ JoinKey \notin {None, ""}

LacksKey(e) == JoinKey \notin Range(e[2].columns)

(* C6: a join merge fails with an error naming the offending source        *)
(* whenever a successful source's columns lack merge_key, whatever that    *)
(* source's row count.                                                     *)
C6_MissingKeyFails ==
    (JoinRequested /\ \E k \in 1..Len(OkEntries) : LacksKey(OkEntries[k])) =>
        /\ last.output.kind = "merge_error"
        /\ \E k \in 1..Len(OkEntries) :
               /\ LacksKey(OkEntries[k])
               /\ last.output.body.merge_error =
                      "Merge key '" \o JoinKey \o "' not found in "
                          \o OkEntries[k][1]

\* the successful sources that returned rows: the frames of the join
WithRows == SelectSeq(OkEntries, LAMBDA e : e[2].data # <<>>)

\* every successful source holds merge_key among its columns
AllHaveKey ==
    /\ JoinRequested
    /\ OkEntries # <<>>
    /\ \A k \in 1..Len(OkEntries) : ~LacksKey(OkEntries[k])

KeysOf(rows) == {rows[i][JoinKey] : i \in 1..Len(rows)}

KeysIn == UNION {KeysOf(OkEntries[k][2].data) : k \in 1..Len(OkEntries)}

UniqueKeys(rows) ==
    \A i, j \in 1..Len(rows) : rows[i][JoinKey] = rows[j][JoinKey] => i = j

\* the key values, the row count and the NaN fill of a join result
JoinShape(out) ==
    /\ KeysOf(out.data) = KeysIn
    /\ (\A k \in 1..Len(OkEntries) : UniqueKeys(OkEntries[k][2].data)) =>
           /\ out.row_count = Cardinality(KeysIn)
           /\ UniqueKeys(out.data)
    /\ \A i \in 1..Len(out.data) :
           \A k \in 1..Len(WithRows) :
               out.data[i][JoinKey] \notin KeysOf(WithRows[k][2].data) =>
                   \A col \in Range(WithRows[k][2].columns) \ {JoinKey} :
                       out.data[i][col \o "_" \o WithRows[k][1]] = NaN

(* C7, as claimed: a join merge over sources that all contain merge_key    *)
(* yields a dataset whose merge_key values are exactly the union of the    *)
(* sources' key values, one row per key when keys are unique within each   *)
(* source, NaN in every column of a source that lacks the row's key.       *)
C7_JoinYieldsKeyUnion ==
    AllHaveKey =>
        /\ last.output.kind = "merged"
        /\ JoinShape(last.output.body)

(* C7, amended: the same, provided at least one of the sources returned a  *)
(* row; when none did, the join fails with "No data available for join".   *)
C7_JoinKeyUnion ==
    AllHaveKey =>
        IF WithRows # <<>>
        THEN /\ last.output.kind = "merged"
             /\ last.output.body.merge_type = "join"
             /\ JoinShape(last.output.body)
        ELSE /\ last.output.kind = "merge_error"
             /\ last.output.body.merge_error = "No data available for join"

\* the spec's example: ids 1, 2 and 3, NaN where a source lacks the id
C7_Witness ==
    /\ AllHaveKey
    /\ IsJoin
    /\ JoinKey = "id"
    /\ last.output.body.columns = <<"id", "x_a", "y_b">>
    /\ KeysOf(last.output.body.data) = {"1", "2", "3"}
    /\ last.output.body.row_count = 3
    /\ last.output.body.data[1]["y_b"] = NaN
    /\ last.output.body.data[3]["x_a"] = NaN

(* C8: only the entries with success = TRUE contribute to a merged         *)
(* dataset, and a merge over no successful entry fails with "No successful *)
(* results to merge" instead of returning an empty dataset.                *)
C8_OnlySuccessfulMerge ==
    /\ (Attempted /\ OkEntries = <<>>) =>
           /\ last.output.kind = "merge_error"
           /\ last.output.body.merge_error = "No successful results to merge"
    /\ (IsQuery /\ last.output.kind = "merged") =>
           LET out == last.output.body
           IN  /\ OkEntries # <<>>
               /\ out.source_databases = Keys(OkEntries)
               /\ out.metadata.source_count = Len(OkEntries)
               /\ out.metadata.rows_per_source =
                      [k \in 1..Len(OkEntries) |->
                          <<OkEntries[k][1], OkEntries[k][2].row_count>>]
               /\ out.merge_type = "union" =>
                      /\ Range(Tail(out.columns)) = ColumnUnion(OkEntries)
                      /\ out.row_count = SumRows(OkEntries, Len(OkEntries))
               /\ out.merge_type = "join" =>
                      Range(out.columns) \subseteq
                          {JoinKey} \cup
                          UNION {{c \o "_" \o OkEntries[k][1] :
                                      c \in Range(OkEntries[k][2].columns)} :
                                  k \in 1..Len(OkEntries)}

\* two queried connections, neither successful
C8_Witness ==
    /\ Attempted
    /\ OkEntries = <<>>
    /\ \E i \in 1..Len(last.results) :
           last.results[i][2].error = "no such table: t"
    /\ last.output.body.merge_error = "No successful results to merge"

\* the merge of this round raises
MergeFails ==
    /\ Attempted
    /\ \/ OkEntries = <<>>
       \/ last.merge.merge_type \notin {"union", "join"}
       \/ /\ last.merge.merge_type = "join"
          /\ \/ JoinKey \in {None, ""}
             \/ WithRows = <<>>
             \/ \E k \in 1..Len(WithRows) : LacksKey(WithRows[k])

(* C9: whenever a requested merge fails, the output holds a merge_error    *)
(* field together with the complete unmerged result mapping of the round;  *)
(* a merge that does not fail returns the merged dataset.                  *)
C9_MergeErrorKeepsResults ==
    /\ MergeFails =>
           /\ last.output.kind = "merge_error"
           /\ last.output.body.merge_error # ""
           /\ last.output.body.individual_results = last.results
           /\ KeySet(last.output.body.individual_results)
                  = Range(last.conn_list)
    /\ (Attempted /\ ~MergeFails) => last.output.kind = "merged"
    /\ (IsQuery /\ ~Attempted) => last.output.kind = "results"

\* a join on a key one source lacks, next to a failed connection
C9_Witness ==
    /\ MergeFails
    /\ Len(last.results) = 3
    /\ Len(OkEntries) = 2
    /\ last.output.body.merge_error = "Merge key 'id' not found in c"
    /\ Len(last.output.body.individual_results) = 3

-----------------------------------------------------------------------------
(* Properties of the MCP server, read off the last request.                *)

IsAction == response # NoCall /\ response.op = "action"

\* the request's session_id is absent, empty or not a key of the store
UnknownId ==
    IsAction /\ ~HasKey(response.before.sessions, response.request.session_id)

C10_Zeroed(session_id) ==
    [session_id |-> session_id, connected |-> FALSE, db_type |-> None,
     db_name |-> None, schema_loaded |-> FALSE, table_count |-> 0,
     table_names |-> <<>>, last_query |-> None, last_result_count |-> None]

C10_NewAgent ==
    [obj |-> made, engine |-> None, shared |-> None, history |-> 0]

\* the id the session is created under: a generated one, or the caller's
C10_NewId ==
    /\ ~HasKey(response.before.sessions, response.sid)
    /\ IF response.request.session_id \in {None, ""}
       THEN response.sid = UuidPool[uuids]
       ELSE response.sid = response.request.session_id

\* no agent of the store before the request is the object numbered made
C10_AgentIsNew ==
    \A i \in 1..Len(response.before.agents) :
        response.before.agents[i][2].obj < made

\* the store and the response are those of the action dispatched on a new
\* agent and a zeroed context under the new id; an error is the action's own
C10_Allocated ==
    /\ C10_NewId
    /\ C10_AgentIsNew
    /\ response.dispatched
    /\ HasKey(sessions, response.sid)
    /\ HasKey(agents, response.sid)
    /\ \E llm \in LlmAnswers, is_query \in BOOLEAN :
          LET done == _execute_action(C10_NewAgent, C10_Zeroed(response.sid),
                                      response.request.action,
                                      response.request.parameters,
                                      llm, is_query)
          IN  /\ DictAt(agents, response.sid) = done.agent
              /\ DictAt(sessions, response.sid) = done.context
              /\ response.resp.success = ~done.raised
              /\ response.resp.success =>
                    /\ response.resp.session_id = response.sid
                    /\ response.resp.context = done.context
              /\ ~response.resp.success => response.resp.error = done.msg

SessionIds == ClientIds \cup Range(UuidPool)

IsDelete == response # NoCall /\ response.op = "delete"

IsGetContext == response # NoCall /\ response.op = "get_context"

\* what the last deletion or context fetch answered, against the store
C11_Answers ==
    /\ IsDelete /\ response.status = 200 =>
          /\ HasKey(response.before.sessions, response.sid)
          /\ ~HasKey(sessions, response.sid)
          /\ ~HasKey(agents, response.sid)
    /\ IsDelete /\ ~HasKey(response.before.sessions, response.sid) =>
          /\ response.status = 404
          /\ sessions = response.before.sessions
          /\ agents = response.before.agents
    /\ IsGetContext =>
          IF HasKey(sessions, response.sid)
          THEN /\ response.status = 200
               /\ response.context = DictAt(sessions, response.sid)
          ELSE response.status = 404

\* an id that is not in the store enters it by an action request on that id
C11_Recreated ==
    \A id \in SessionIds :
        ~HasKey(sessions, id) /\ HasKey(sessions', id) =>
            /\ response'.op = "action"
            /\ response'.sid = id

(* C11: after DELETE /mcp/session/{id} succeeded the context and the agent *)
(* of the id are gone, and GET /mcp/context/{id} answers 404 as long as no *)
(* action request has re-created the id; deleting an id that is not in the *)
(* store answers 404 and changes nothing.                                  *)
C11_DeleteThenNotFound == []C11_Answers /\ [][C11_Recreated]_vars

\* a context fetch answers 404 for an id whose session, agent included,
\* was created and deleted before
C11_Witness ==
    /\ IsGetContext
    /\ response.status = 404
    /\ response.sid = "s1"
    /\ uuids = 0
    /\ made >= 1
    /\ sessions = <<>>
    /\ agents = <<>>

\* the ids of the store are bound to pairwise different agent objects
C12_DistinctAgents ==
    \A i, j \in 1..Len(agents) :
        i # j => /\ agents[i][1] # agents[j][1]
                 /\ agents[i][2].obj # agents[j][2].obj

\* the entry of id in a dict is what it was before the request
C12_Same(before, after, id) ==
    /\ HasKey(after, id) = HasKey(before, id)
    /\ HasKey(before, id) => DictAt(after, id) = DictAt(before, id)

IsConnectDb ==
    IsAction /\ response.dispatched /\ response.request.action = "connect_db"

\* the context the request's session had when the action was dispatched
ContextBefore ==
    IF HasKey(response.before.sessions, response.sid)
    THEN DictAt(response.before.sessions, response.sid)
    ELSE MCPContext(response.sid)

(* C13: a CONNECT_DB whose attempt succeeds sets connected and the         *)
(* request's db_type and db_name in the session context; one whose attempt *)
(* fails leaves every field of the context as it was, also on a session an *)
(* earlier CONNECT_DB connected, and returns the failure message as the    *)
(* payload of a success=true response.                                     *)
C13_ConnectContext ==
    IsConnectDb =>
        /\ response.resp.success
        /\ IF response.resp.data = Connected
           THEN DictAt(sessions, response.sid) =
                    [ContextBefore EXCEPT
                        !.connected = TRUE,
                        !.db_type = response.request.parameters.db_type,
                        !.db_name = response.request.parameters.db_name]
           ELSE /\ response.resp.data \in {Unsupported, ConnectFailed}
                /\ DictAt(sessions, response.sid) = ContextBefore

-----------------------------------------------------------------------------
(* Properties of the single-connection execute operation.                  *)

IsExecute == last.op = "execute"

\* the statements that begin with one of the six keywords once trimmed and
\* put in capitals
C14_Destructive ==
    {S_DROP, S_drop, S_NLDROP, S_DELETE, S_TRUNCATE, S_UPDATE, S_ALTER,
     S_CREATE}

(* C14: the execute operation sends no statement to the database that,     *)
(* trimmed and in capitals, begins with DROP, DELETE, TRUNCATE, UPDATE,    *)
(* ALTER or CREATE: it is refused before a connection is opened.           *)
C14_DestructiveNotSent ==
    IsExecute /\ last.sql_query \in C14_Destructive =>
        /\ last.ret.sent = <<>>
        /\ last.ret.connects = 0
        /\ last.ret.out.kind = "text"

\* a drop in small letters behind blanks, refused on a connected engine
C14_Witness ==
    /\ IsExecute
    /\ last.sql_query = S_drop
    /\ last.engine = "a.db"
    /\ last.ret.sent = <<>>
    /\ last.ret.out = Text(DestructiveText)

(* C15: the rejection of a destructive statement is returned as a          *)
(* structured failure value, with a success flag that is false, in the     *)
(* shape of an execution-error result; it is no exception and no           *)
(* unstructured value.                                                     *)
C15_RejectionStructured ==
    IsExecute /\ last.engine # None /\ last.sql_query \in C14_Destructive =>
        /\ last.ret.out.kind = "json"
        /\ ~last.ret.out.success
        /\ DOMAIN last.ret.out = DOMAIN ErrorInfo("", last.sql_query)

IsExecuteQuery ==
    IsAction /\ response.dispatched
             /\ response.request.action = "execute_query"

(* C16: an EXECUTE_QUERY action sets context.last_query to the generated   *)
(* SQL if the generation succeeded, whatever executing that SQL gave, and  *)
(* leaves context.last_query, like every other field, as it was if the     *)
(* generation failed; a session that is not connected has no schema to     *)
(* generate from.                                                          *)
C16_LastQuery ==
    IsExecuteQuery =>
        LET results == response.resp.data
        IN  /\ response.resp.success
            /\ ~ContextBefore.connected => results.sql_query = None
            /\ IF results.sql_query # None
               THEN /\ results.sql_query \in {G_SELECT, G_DROP}
                    /\ results.error = None
                    /\ DictAt(sessions, response.sid) =
                           [ContextBefore EXCEPT
                               !.last_query = results.sql_query]
               ELSE /\ results.error \in GenerateErrors
                    /\ DictAt(sessions, response.sid) = ContextBefore

\* the generated statement was refused by the execute operation and has
\* replaced the statement of an earlier query in the context
C16_Witness ==
    /\ IsExecuteQuery
    /\ response.resp.data.sql_query = G_DROP
    /\ response.resp.data.execution_result = Text(DestructiveText)
    /\ ContextBefore.last_query = G_SELECT
    /\ DictAt(sessions, response.sid).last_query = G_DROP

\* the generation failed on a session whose context holds a statement
C16_WitnessFailed ==
    /\ IsExecuteQuery
    /\ response.resp.data.sql_query = None
    /\ response.resp.data.error = GenerateFailed
    /\ ContextBefore.last_query = G_SELECT
    /\ DictAt(sessions, response.sid).last_query = G_SELECT

IsDispatched == IsAction /\ response.dispatched

\* the agent the request's session had when the action was dispatched
AgentBefore ==
    IF HasKey(response.before.agents, response.sid)
    THEN DictAt(response.before.agents, response.sid)
    ELSE [obj |-> made, engine |-> None, shared |-> None, history |-> 0]

\* the response is a protocol-level error, and the session is in the store
\* with its context and its agent as they were
C17_FailedAndKept ==
    /\ ~response.resp.success
    /\ response.resp.error # None
    /\ HasKey(sessions, response.sid)
    /\ HasKey(agents, response.sid)
    /\ DictAt(sessions, response.sid) = ContextBefore
    /\ DictAt(agents, response.sid) = AgentBefore

\* a request on a session that has its agent is dispatched, whatever the
\* requests before it gave
C17_StillDispatched ==
    IsAction /\ HasKey(response.before.sessions, response.sid)
             /\ HasKey(response.before.agents, response.sid)
        => response.dispatched

(* C17: an action that fails with an internal exception, for example       *)
(* GET_SCHEMA or GENERATE_QUERY on a session that is not connected, is     *)
(* answered with success=false and the error message; the session stays    *)
(* in the store with its context unchanged and later actions on its id are *)
(* dispatched as before.                                                   *)
C17_ExceptionBecomesError ==
    /\ IsDispatched /\ ~response.resp.success => C17_FailedAndKept
    /\ IsDispatched /\ ~ContextBefore.connected
           /\ response.request.action \in {"get_schema", "generate_query"}
           => C17_FailedAndKept
    /\ C17_StillDispatched

(* C17, as the code has it: GET_SCHEMA on a session that is not connected  *)
(* raises and is answered so; GENERATE_QUERY on such a session raises      *)
(* nothing: it is answered with success=true and the tool's failure text   *)
(* as the sql_query of the payload, the context unchanged.                 *)
C17_ExceptionBecomesErrorGetSchema ==
    /\ IsDispatched /\ ~response.resp.success => C17_FailedAndKept
    /\ IsDispatched /\ ~ContextBefore.connected
           /\ response.request.action = "get_schema"
           => C17_FailedAndKept
    /\ IsDispatched /\ ~ContextBefore.connected
           /\ response.request.action = "generate_query"
           => /\ response.resp.success
              /\ response.resp.data = InvalidSchemaJson
              /\ DictAt(sessions, response.sid) = ContextBefore
              /\ DictAt(agents, response.sid) = AgentBefore
    /\ C17_StillDispatched

\* GET_SCHEMA failed on a session of the store that is not connected, next
\* to a session that is
C17_Witness ==
    /\ IsDispatched
    /\ response.request.action = "get_schema"
    /\ ~response.resp.success
    /\ response.resp.error = "Expecting value"
    /\ HasKey(response.before.sessions, response.sid)
    /\ sessions = response.before.sessions
    /\ \E id \in SessionIds \ {response.sid} :
          HasKey(sessions, id) /\ DictAt(sessions, id).connected

\* the context snapshots a response carries: create_success_response is
\* given one, create_error_response is given none
C18_Snapshots(resp) == IF resp.error = None THEN <<resp.context>> ELSE <<>>

(* C18: every response to an action request, successful or not, carries    *)
(* the id of the session the action was dispatched on, also an id the      *)
(* server generated, and a snapshot of that session's context.             *)
C18_ResponseCarriesSession ==
    IsDispatched =>
        /\ response.resp.session_id = response.sid
        /\ C18_Snapshots(response.resp) = <<DictAt(sessions, response.sid)>>


-----------------------------------------------------------------------------
(* C19: an add_connection that fails, because the db_type is not           *)
(* recognized or because the probe query fails, leaves connections and     *)
(* metadata exactly as they were before the call: no entry is created for  *)
(* the name, and a name that was registered keeps the engine and the       *)
(* metadata it had.                                                        *)
C19_FailedAdd == last.op = "add" /\ last.status \in {"unsupported", "failed"}

C19_FailedAddKeepsRegistry ==
    C19_FailedAdd =>
        /\ connections = last.before.connections
        /\ metadata = last.before.metadata
        /\ HasKey(connections, last.name) =
               HasKey(last.before.connections, last.name)
        /\ HasKey(last.before.connections, last.name) =>
               /\ DictAt(connections, last.name) =
                      DictAt(last.before.connections, last.name)
               /\ DictAt(metadata, last.name) =
                      DictAt(last.before.metadata, last.name)

\* a probe failed for a name that is registered, next to another name
C19_Witness ==
    /\ last.op = "add"
    /\ last.status = "failed"
    /\ HasKey(last.before.connections, last.name)
    /\ Len(connections) = 2

\* an unrecognized db_type for a name that is not registered
C19_WitnessUnsupported ==
    /\ last.op = "add"
    /\ last.status = "unsupported"
    /\ ~HasKey(connections, last.name)
    /\ Len(connections) >= 1


-----------------------------------------------------------------------------
(* A pass over the registry in one thread while another thread calls       *)
(* add_connection and remove_connection.  The calling thread gives up the  *)
(* interpreter inside the loop body (engine.connect() waits on the         *)
(* database), so the other thread's calls fall between two steps of the    *)
(* loop.  iter holds the frame of the pass:                                *)
(*   kind       which loop runs                                            *)
(*   di_used    len(connections) when the dict iterator was made           *)
(*   di_pos     how many live entries lie before the iterator              *)
(*   len        how many entries the iterator may still hand out           *)
(*   conn_list  the list the tool copied from list_connections()           *)
(*   results    the entries written so far                                 *)
(*   start, added, removed   the names registered when the pass began and  *)
(*              those the other thread has added and removed since         *)
(* and nentries, the entries the key table of connections has used.  The   *)
(* table of a dict made by {} has room for MaxEntries entries; a removal   *)
(* leaves its entry unused in place, and the table is rebuilt only by an   *)
(* insertion that finds no room, which the guards keep out.                *)

MaxEntries == 5

PassKinds == {"execute_on_all", "compare_schemas", "_run"}

\* the names the other thread adds and removes
PassNames == {"a", "b"}

\* the other thread registers a reachable file and tries one it cannot open
PassDbNames == {"a.db", "/nodir/x.db"}

\* the body of the loop of compare_schemas, lines 152-163
SchemaEntry(engine) ==
    [table_count |-> Len(TableNames(engine)), tables |-> TableNames(engine)]

\* the loops iterate self.connections.items() itself
IteratesDict(kind) == kind \in {"execute_on_all", "compare_schemas"}

\* entering the function: results = {} and the iterator of the for
\* statement, or the copied name list of the tool (lines 79-85)
StartPass ==
    \E kind \in PassKinds :
        /\ iter.op = "none"
        /\ iter' = [op |-> "pass",
                    nentries |-> iter.nentries,
                    kind |-> kind,
                    di_used |-> Len(connections),
                    di_pos |-> 0,
                    len |-> Len(connections),
                    conn_list |-> IF kind = "_run" THEN list_connections
                                  ELSE <<>>,
                    results |-> <<>>,
                    start |-> KeySet(connections),
                    added |-> {},
                    removed |-> {},
                    status |-> "running",
                    error |-> None]
        /\ UNCHANGED <<connections, metadata, last, mcpVars, auxVars>>

\* next() of a dict item iterator and one run of the body: the size check
\* comes first and its RuntimeError is raised by the for statement, outside
\* the try of the body
DictStep ==
    IF iter.di_used # Len(connections)
    THEN [iter EXCEPT !.status = "raised", !.error =
                        "dictionary changed size during iteration"]
    ELSE IF iter.di_pos >= Len(connections)
    THEN [iter EXCEPT !.status = "returned"]
    ELSE IF iter.len = 0
    THEN [iter EXCEPT !.status = "raised", !.error =
                        "dictionary keys changed during iteration"]
    ELSE LET name == connections[iter.di_pos + 1][1]
             engine == connections[iter.di_pos + 1][2]
             entry == IF iter.kind = "execute_on_all"
                      THEN Execute(engine, Q_STAR)
                      ELSE SchemaEntry(engine)
         IN  [iter EXCEPT !.results = DictSet(@, name, entry),
                          !.di_pos = @ + 1,
                          !.len = @ - 1]

\* one turn of the loop of the tool over its own list, lines 90-115
ListStep ==
    IF iter.di_pos >= Len(iter.conn_list)
    THEN [iter EXCEPT !.status = "returned"]
    ELSE LET conn_name == iter.conn_list[iter.di_pos + 1]
         IN  [iter EXCEPT !.results =
                              DictSet(@, conn_name,
                                      FanoutEntry(conn_name, Q_STAR)),
                          !.di_pos = @ + 1]

StepPass ==
    /\ iter.op = "pass"
    /\ iter.status = "running"
    /\ iter' = IF IteratesDict(iter.kind) THEN DictStep ELSE ListStep
    /\ UNCHANGED <<connections, metadata, last, mcpVars, auxVars>>

\* the caller of the pass has its return value or its exception
FinishPass ==
    /\ iter.op = "pass"
    /\ iter.status # "running"
    /\ iter' = [op |-> "none", nentries |-> iter.nentries]
    /\ UNCHANGED <<connections, metadata, last, mcpVars, auxVars>>

\* add_connection in the other thread: a new name takes the next entry of
\* the key table, a registered name has its value replaced in place
AddDuringPass ==
    \E name \in PassNames, db_type \in {"sqlite", "oracle"},
       db_name \in PassDbNames :
        /\ last = NoCall
        /\ ~HasKey(connections, name) => iter.nentries < MaxEntries
        /\ add_connection(name, db_type, db_name)
        /\ LET grown == Len(connections') - Len(connections)
           IN  iter' = IF iter.op = "pass"
                       THEN [iter EXCEPT
                                !.nentries = @ + grown,
                                !.added = IF last'.status = "ok"
                                          THEN @ \cup {name} ELSE @]
                       ELSE [iter EXCEPT !.nentries = @ + grown]
        /\ UNCHANGED <<mcpVars, auxVars>>

\* remove_connection in the other thread: an entry the iterator has passed
\* leaves one live entry fewer before it
RemoveDuringPass ==
    \E name \in PassNames, disposeRaises \in BOOLEAN :
        /\ last = NoCall
        /\ remove_connection(name, disposeRaises)
        /\ iter' = IF iter.op = "pass" /\ last'.status = "ok"
                   THEN [iter EXCEPT
                            !.removed = @ \cup {name},
                            !.di_pos =
                                IF /\ IteratesDict(iter.kind)
                                   /\ \E i \in 1..iter.di_pos :
                                          /\ i <= Len(connections)
                                          /\ connections[i][1] = name
                                THEN @ - 1 ELSE @]
                   ELSE iter
        /\ UNCHANGED <<mcpVars, auxVars>>

NextConcurrent ==
    \/ StartPass
    \/ StepPass
    \/ FinishPass
    \/ AddDuringPass
    \/ RemoveDuringPass
    \/ ReturnToCaller

SpecConcurrent == InitMultiDB /\ [][NextConcurrent]_vars

(* C20: a fan-out query or a compare-schemas pass that runs while another  *)
(* thread adds or removes connections never raises out of its loop: it     *)
(* runs to its return, and what it returns has an entry for every name     *)
(* that was registered from its start to its end and for no name other     *)
(* than those registered at its start or added meanwhile.                  *)
C20_PassOfSnapshot ==
    KeySet(iter.results) \in
        {(iter.start \ skipped) \cup included :
            skipped \in SUBSET iter.removed, included \in SUBSET iter.added}

C20_PassCompletes ==
    iter.op = "pass" =>
        /\ iter.status \in {"running", "returned"}
        /\ iter.status = "returned" => C20_PassOfSnapshot


-----------------------------------------------------------------------------
\* the columns of one source of a join as the result names them: the
\* non-key columns with the source's name appended, merge_key as it is
C22_Columns(e, withKey) ==
    LET cols == Flatten1(Dedupe(e[2].columns))
        kept == SelectSeq(cols, LAMBDA c : withKey \/ c # JoinKey)
    IN  [i \in 1..Len(kept) |->
            IF kept[i] = JoinKey THEN JoinKey ELSE kept[i] \o "_" \o e[1]]

RECURSIVE C22_NonKeyColumns(_, _)
\* the renamed non-key columns of the sources from the i-th on
C22_NonKeyColumns(entries, i) ==
    IF i > Len(entries) THEN <<>>
    ELSE C22_Columns(entries[i], FALSE) \o C22_NonKeyColumns(entries, i + 1)

(* C22, as claimed: the column list of a join result is merge_key first,   *)
(* then the renamed non-key columns (<column>_<source name>) of each       *)
(* source in source order and, within a source, in its column order,       *)
(* whatever position merge_key has in a source's own column list.          *)
C22_JoinColumnsKeyFirst ==
    IsJoin =>
        last.output.body.columns = <<JoinKey>> \o C22_NonKeyColumns(WithRows, 1)

(* C22, amended: the column list of a join result is the column list of    *)
(* the first source that returned rows, in that source's order, with       *)
(* merge_key where that source has it and every other column renamed       *)
(* <column>_<source name>, followed by the renamed non-key columns of each *)
(* later source that returned rows, in source order and column order;      *)
(* merge_key is never renamed and occurs once.                             *)
C22_JoinColumns ==
    IsJoin =>
        /\ last.output.body.columns =
               C22_Columns(WithRows[1], TRUE) \o C22_NonKeyColumns(WithRows, 2)
        /\ Cardinality({i \in 1..Len(last.output.body.columns) :
                           last.output.body.columns[i] = JoinKey}) = 1

\* a join on x over a and c: a holds x after id
C22_Witness ==
    /\ IsJoin
    /\ JoinKey = "x"
    /\ Len(WithRows) = 2
    /\ last.output.body.columns = <<"id_a", "x", "_source_db_c">>


-----------------------------------------------------------------------------
\* the session of id has just been removed from the store
C23_Deleted(id) ==
    /\ IsDelete
    /\ response.sid = id
    /\ HasKey(response.before.sessions, id)
    /\ ~HasKey(sessions, id)

\* an action request on id was dispatched and the store had no session of id
C23_Served(id) ==
    /\ IsDispatched
    /\ response.sid = id
    /\ ~HasKey(response.before.sessions, id)

\* nothing but what this one request wrote is in the context and the agent
C23_Fresh(id) ==
    LET context == DictAt(sessions, id)
        agent == DictAt(agents, id)
        request == response.request
    IN  /\ context.session_id = id
        /\ IF request.action = "connect_db" /\ context.connected
           THEN /\ context.db_type = request.parameters.db_type
                /\ context.db_name = request.parameters.db_name
                /\ agent.engine = request.parameters.db_name
           ELSE /\ ~context.connected
                /\ context.db_type = None
                /\ context.db_name = None
                /\ agent.shared = None
        /\ ~context.schema_loaded
        /\ context.table_count = 0
        /\ context.table_names = <<>>
        /\ context.last_query = None
        /\ context.last_result_count = None
        /\ agent.history = 0
        /\ agent.obj = made
        /\ \A i \in 1..Len(response.before.agents) :
               response.before.agents[i][2].obj < agent.obj
        /\ response.resp.success => response.resp.context = context

(* C23: after a session has been deleted, an action request bearing the    *)
(* deleted id is served by a fresh session: its context starts from the    *)
(* zeroed defaults and its agent is a newly constructed instance, so no    *)
(* connection, schema, last_query or chat history of the deleted session   *)
(* is observable.                                                          *)
C23_DeletedIdServedFresh ==
    \A id \in SessionIds :
        [](C23_Deleted(id) => [](C23_Served(id) => C23_Fresh(id)))

\* s1, the only id in use, had the first agent and was deleted; a status
\* request on s1 is answered with a zeroed context by the second agent
C23_Witness ==
    /\ C23_Served("s1")
    /\ uuids = 0
    /\ made = 2
    /\ response.request.action = "get_status"
    /\ response.resp.success
    /\ ~response.resp.context.connected
    /\ response.resp.context.last_query = None


-----------------------------------------------------------------------------
ReadMostly == {"get_status", "chat", "generate_query", "analyze_results"}

\* the context the action was dispatched on: the stored one, or the
\* defaults of a session the request created
C24_ContextBefore ==
    IF HasKey(response.before.sessions, response.sid)
    THEN DictAt(response.before.sessions, response.sid)
    ELSE C10_Zeroed(response.sid)

(* C24: the actions GET_STATUS, CHAT, GENERATE_QUERY and ANALYZE_RESULTS   *)
(* leave every field of the session context unchanged, whether they        *)
(* succeed or fail.                                                        *)
C24_ReadMostlyKeepsContext ==
    IsDispatched /\ response.request.action \in ReadMostly =>
        /\ DictAt(sessions, response.sid) = C24_ContextBefore
        /\ response.resp.success =>
               response.resp.context = C24_ContextBefore

\* a chat request without a message fails on a connected session
C24_Witness ==
    /\ IsDispatched
    /\ response.request.action = "chat"
    /\ ~response.resp.success
    /\ C24_ContextBefore.connected
    /\ DictAt(sessions, response.sid).connected

\* a chat that ran a query on a session with an earlier last_query
C24_WitnessChatQuery ==
    /\ IsDispatched
    /\ response.request.action = "chat"
    /\ response.resp.success
    /\ HasKey(response.before.agents, response.sid)
    /\ DictAt(agents, response.sid).history >
           DictAt(response.before.agents, response.sid).history
    /\ C24_ContextBefore.last_query # None


-----------------------------------------------------------------------------
(* C25: in every reachable state of the server the session ids that have   *)
(* a context are the session ids that have an agent, after any sequence of *)
(* action requests and deletions, including action requests during which   *)
(* the construction of the session's agent fails.                          *)
C25_ContextIffAgent == KeySet(sessions) = KeySet(agents)


-----------------------------------------------------------------------------
(* C26: in every reachable state of a session, context.connected is true   *)
(* only if the session's agent reports is_connected() true, after any      *)
(* sequence of successful and failed CONNECT_DB actions.                   *)
C26_ConnectedOnlyIfAgentIs ==
    \A i \in 1..Len(sessions) :
        LET id == sessions[i][1]
        IN  HasKey(agents, id) /\ sessions[i][2].connected =>
                LET engine == DictAt(agents, id).engine
                IN  engine # None /\ engine \in DbFiles


-----------------------------------------------------------------------------
-----------------------------------------------------------------------------
(* C28: the multi-database query tool attempts a merge only when merging   *)
(* is requested and the fan-out round produced more than one result entry; *)
(* when exactly one connection was queried the tool returns the plain      *)
(* per-connection result mapping, without _source_db tagging and without   *)
(* merge_error, even though merge_results is true.                         *)
C28_MergeOnlyOverSeveral ==
    IsQuery =>
        /\ last.output.kind \in {"merged", "merge_error"} =>
               last.merge.merge_results /\ Len(last.results) > 1
        /\ last.merge.merge_results /\ Len(last.results) > 1 =>
               last.output.kind \in {"merged", "merge_error"}
        /\ Len(last.results) = 1 =>
               /\ last.output.kind = "results"
               /\ last.output.body = last.results
               /\ Keys(last.output.body) = Flatten1(Dedupe(last.conn_list))

\* one connection queried with a union requested: its rows come back as
\* they are
C28_Witness ==
    /\ IsQuery
    /\ last.merge.merge_results
    /\ last.merge.merge_type = "union"
    /\ Len(last.results) = 1
    /\ last.results[1][2].success
    /\ last.results[1][2].row_count = 2
    /\ last.output.kind = "results"
    /\ last.output.body[1][2].columns = <<"id", "x">>


-----------------------------------------------------------------------------
(* One MCPClient against the server.  The client sends the session id it   *)
(* holds, None at first, and takes over the session_id of a response that  *)
(* carries one.                                                            *)

MaxClientUuids == 3
MaxClientAgents == 3

\* MCPClient.execute_action over POST /mcp/action
ClientExecuteAction ==
    \E action \in Actions, parameters \in ConnectParams \cup {NoParams}
                                             \cup ChatParams,
       llm \in LlmAnswers :
        LET request == [action |-> action, session_id |-> client.session_id,
                        parameters |-> parameters]
        IN  /\ response = NoCall
            /\ (action = "connect_db") = (parameters \in ConnectParams)
            /\ (action = "chat") = (parameters \in ChatParams)
            /\ action \notin {"generate_query", "execute_query", "chat"}
                   => llm = LlmRaises
            /\ client.session_id = None => uuids < MaxClientUuids
            /\ ~HasKey(sessions, client.session_id) => made < MaxClientAgents
            /\ execute_action(request, llm,
                              parameters = [message |-> "show tables"])
            /\ \A i \in 1..Len(agents') : agents'[i][2].history <= MaxHistory
            \* lines 50-51: a session_id that is None or empty is not taken
            /\ client' = [session_id |->
                              IF response'.resp.session_id \notin {None, ""}
                              THEN response'.resp.session_id
                              ELSE client.session_id,
                          used |-> client.used \cup {response'.sid}]
            /\ UNCHANGED <<api_key, connections, metadata, last, iter,
                           cli, task>>

\* MCPClient.delete_session: nothing without a session id; an answer other
\* than 200 raises at line 136 and the id is kept
ClientDeleteSession ==
    /\ response = NoCall
    /\ client.session_id # None
    /\ delete_session(client.session_id)
    /\ client' = IF response'.status = 200 THEN NoClient ELSE client
    /\ UNCHANGED <<api_key, connections, metadata, last, iter, cli, task>>

NextClient ==
    \/ ClientExecuteAction
    \/ ClientDeleteSession
    \/ ReturnResponse

SpecClient == InitMCP /\ [][NextClient]_vars

(* C27: between its construction (or its last delete_session call) and its *)
(* next delete_session call, all action requests of one MCPClient are      *)
(* dispatched on one and the same server session, so the server creates at *)
(* most one session for the client, whatever mix of successful and failed  *)
(* responses the client receives.                                          *)
C27_OneSessionPerClient == Cardinality(client.used) <= 1


-----------------------------------------------------------------------------
(* The handlers as coroutines of the one event loop uvicorn.run() starts.  *)
(* A coroutine keeps the loop until it suspends, and it can suspend only   *)
(* at an await whose awaited coroutine suspends.  execute_action holds one *)
(* await, of self._execute_action(...) at line 90; delete_session and      *)
(* get_context hold none.  task is the frame of execute_action at that     *)
(* await: the request, the session id and the agent and context objects    *)
(* of lines 86-87.                                                         *)

\* the await expressions in the body of _execute_action: the agent's
\* methods are called, not awaited
AwaitsInsideAgentCalls == {"agent.connect_database", "agent.get_schema"}

AwaitsInside == {}

\* the loop can start another handler
LoopFree == task = NoCall \/ AwaitsInside # {}

LoopActions == {"connect_db", "get_schema", "get_status"}

\* lines 76-87: the session is fetched or created, then the coroutine is at
\* its await; an exception of these lines is answered at once
BeginAction ==
    \E request \in Requests :
        LET generated == request.session_id \in {None, ""}
            session_id == IF generated THEN UuidPool[uuids + 1]
                          ELSE request.session_id
            create == ~HasKey(sessions, session_id)
            sessions1 == IF create
                         THEN DictSet(sessions, session_id,
                                      MCPContext(session_id))
                         ELSE sessions
            agents1 == IF create /\ ~AgentRaises
                       THEN DictSet(agents, session_id, QueryAgent(made + 1))
                       ELSE agents
            raises == ~HasKey(agents1, session_id)
        IN  /\ LoopFree
            /\ task = NoCall
            /\ response = NoCall
            /\ request.action \in LoopActions
            /\ (request.action = "connect_db") =
                   (request.parameters \in ConnectParams)
            /\ request.parameters \notin ChatParams
            /\ generated => uuids < MaxUuids
            /\ create => made < MaxAgents
            /\ uuids' = IF generated THEN uuids + 1 ELSE uuids
            /\ made' = IF create /\ ~AgentRaises THEN made + 1 ELSE made
            /\ sessions' = sessions1
            /\ agents' = agents1
            /\ task' = IF raises THEN NoCall
                       ELSE [op |-> "action", request |-> request,
                             session_id |-> session_id,
                             before |-> StoreBefore,
                             agent |-> DictAt(agents1, session_id),
                             context |-> DictAt(sessions1, session_id)]
            /\ response' =
                   IF raises
                   THEN [op |-> "action", request |-> request,
                         sid |-> session_id, before |-> StoreBefore,
                         dispatched |-> FALSE,
                         resp |-> MCPResponse(
                                      FALSE, None,
                                      IF create THEN NoKeyError
                                      ELSE "'" \o session_id \o "'",
                                      request.session_id, None)]
                   ELSE NoCall
            /\ UNCHANGED <<api_key, connections, metadata, last, iter,
                           cli, client>>

\* lines 90-111: the action runs on the objects of the frame, which it
\* changes in place, and the context is written back under the session id
EndAction ==
    LET session_id == task.session_id
        done == _execute_action(task.agent, task.context,
                                task.request.action, task.request.parameters,
                                LlmRaises, FALSE)
        lost == ~HasKey(sessions, session_id)
        failed == done.raised \/ lost
    IN  /\ task # NoCall
        /\ response = NoCall
        /\ task' = NoCall
        /\ agents' = IF /\ HasKey(agents, session_id)
                        /\ DictAt(agents, session_id).obj = task.agent.obj
                     THEN DictSet(agents, session_id, done.agent)
                     ELSE agents
        /\ sessions' = IF lost THEN sessions
                       ELSE DictSet(sessions, session_id, done.context)
        /\ response' =
               [op |-> "action", request |-> task.request,
                sid |-> session_id, before |-> task.before,
                dispatched |-> TRUE,
                written |-> ~done.raised => ~lost,
                resp |-> IF failed
                         THEN MCPResponse(
                                  FALSE, None,
                                  IF done.raised THEN done.msg
                                  ELSE "'" \o session_id \o "'",
                                  task.request.session_id, None)
                         ELSE MCPResponse(TRUE, done.data, None,
                                          session_id, done.context)]
        /\ UNCHANGED <<api_key, uuids, made, connections, metadata, last,
                       iter, cli, client>>

\* DELETE /mcp/session/{session_id} when the loop takes it up
LoopDeleteSession ==
    \E session_id \in RequestIds \ {None, ""} :
        /\ LoopFree
        /\ response = NoCall
        /\ delete_session(session_id)
        /\ UNCHANGED <<api_key, connections, metadata, last, iter, auxVars>>

NextLoop ==
    \/ BeginAction
    \/ EndAction
    \/ LoopDeleteSession
    \/ ReturnResponse

SpecLoop == InitMCP /\ [][NextLoop]_vars

\* while execute_action is at its await no other handler changes the maps
\* or answers
C29_NoneInside ==
    task # NoCall /\ task' # NoCall =>
        UNCHANGED <<sessions, agents, response>>

\* the write-back of line 98 found the session, and with an API key an id
\* is in both maps or in none
C29_WrittenBack ==
    /\ IsDispatched => response.written
    /\ api_key # None /\ task = NoCall => KeySet(sessions) = KeySet(agents)

(* C29: a DELETE /mcp/session/{id} and a POST /mcp/action for the same id  *)
(* never run inside one another: each handler does all its reads and       *)
(* writes of the session and agent maps as one step of the event loop, so  *)
(* a deletion cannot make an action in flight fail at its context          *)
(* write-back nor leave the id in only one of the two maps.                *)
C29_HandlersAtomic == []C29_WrittenBack /\ [][C29_NoneInside]_vars

\* execute_action is at its await on a session that a DELETE of s1 names
C29_Witness ==
    /\ task # NoCall
    /\ task.session_id = "s1"
    /\ HasKey(sessions, "s1")
    /\ DictAt(sessions, "s1").connected
    /\ task.request.action = "get_status"


-----------------------------------------------------------------------------
(* The multidb commands of the CLI.  Each command is one process: it       *)
(* builds its own QueryAgent, whose MultiDBManager starts with no          *)
(* connection, runs one operation and ends.  cli holds the command line,   *)
(* whether an error was printed, and the exit code: 1 where an exception   *)
(* reached the handler that raises typer.Exit(1), 0 where the function     *)
(* returned.                                                               *)

\* _run is called with query and connections; the rest are its defaults
DefaultMerge ==
    [merge_results |-> FALSE, merge_type |-> "union", merge_key |-> None]

\* QueryAgent() raised: the handler prints the error and exits with 1
CliRaised(command, argv) ==
    [op |-> "cli", command |-> command, argv |-> argv,
     reported |-> TRUE, exit_code |-> 1]

\* multidb add: the message of add_connection goes to a panel titled
\* "Connection Added" or "Failed", and the function returns
CliAdd ==
    \E name \in Names, db_type \in DbTypes, db_name \in DbNames :
        LET argv == <<name, db_type, db_name>>
        IN  /\ cli = NoCall
            /\ IF AgentRaises
               THEN /\ cli' = CliRaised("add", argv)
                    /\ UNCHANGED <<connections, metadata, last>>
               ELSE /\ add_connection(name, db_type, db_name)
                    /\ cli' = [op |-> "cli", command |-> "add",
                               argv |-> argv,
                               reported |-> last'.status # "ok",
                               exit_code |-> 0]
            /\ UNCHANGED <<mcpVars, iter, client, task>>

\* multidb list: with no connection it prints a notice and returns
CliList ==
    /\ cli = NoCall
    /\ cli' = IF AgentRaises THEN CliRaised("list", <<>>)
              ELSE [op |-> "cli", command |-> "list", argv |-> <<>>,
                    reported |-> FALSE, exit_code |-> 0]
    /\ UNCHANGED <<connections, metadata, last, mcpVars, iter, client, task>>

\* multidb remove: the message of remove_connection is printed in green or
\* in red, and the function returns
CliRemove ==
    \E name \in Names :
        /\ cli = NoCall
        /\ IF AgentRaises
           THEN /\ cli' = CliRaised("remove", <<name>>)
                /\ UNCHANGED <<connections, metadata, last>>
           ELSE /\ remove_connection(name, FALSE)
                /\ cli' = [op |-> "cli", command |-> "remove",
                           argv |-> <<name>>,
                           reported |-> last'.status # "ok",
                           exit_code |-> 0]
        /\ UNCHANGED <<mcpVars, iter, client, task>>

\* multidb query: json.loads raises on a return value that is a message;
\* the error of a result entry is printed and the loop continues
CliQuery ==
    \E arg \in ConnectionArgs, query \in Queries :
        LET out == _run(arg, query, DefaultMerge)
            raised == out.output.kind = "text"
            results == out.output.body
        IN  /\ cli = NoCall
            /\ IF AgentRaises
               THEN /\ cli' = CliRaised("query", <<query, arg>>)
                    /\ UNCHANGED last
               ELSE /\ last' = out
                    /\ cli' = [op |-> "cli", command |-> "query",
                               argv |-> <<query, arg>>,
                               reported |->
                                   \/ raised
                                   \/ \E i \in 1..Len(results) :
                                          ~results[i][2].success,
                               exit_code |-> IF raised THEN 1 ELSE 0]
            /\ UNCHANGED <<connections, metadata>>
            /\ UNCHANGED <<mcpVars, iter, client, task>>

\* multidb compare: one row per entry of compare_schemas(), an entry with
\* an error as a row that shows it
CliCompare ==
    LET schemas == [i \in 1..Len(connections) |->
                        <<connections[i][1], SchemaEntry(connections[i][2])>>]
    IN  /\ cli = NoCall
        /\ cli' = IF AgentRaises THEN CliRaised("compare", <<>>)
                  ELSE [op |-> "cli", command |-> "compare", argv |-> <<>>,
                        reported |-> \E i \in 1..Len(schemas) :
                                         "error" \in DOMAIN schemas[i][2],
                        exit_code |-> 0]
        /\ UNCHANGED <<connections, metadata, last, mcpVars, iter,
                       client, task>>

\* the process ends, and its agent and registry with it
CliExit ==
    /\ cli # NoCall
    /\ cli' = NoCall
    /\ connections' = <<>>
    /\ metadata' = <<>>
    /\ last' = NoCall
    /\ UNCHANGED <<mcpVars, iter, client, task>>

NextCLI ==
    \/ CliAdd
    \/ CliList
    \/ CliRemove
    \/ CliQuery
    \/ CliCompare
    \/ CliExit

SpecCLI == InitMCP /\ [][NextCLI]_vars

(* C21: every multidb command (add, list, remove, query, compare) ends     *)
(* with a non-zero exit code whenever the operation it ran reported an     *)
(* error, a failure message of add_connection or remove_connection         *)
(* included.                                                               *)
C21_ErrorExitsNonZero ==
    cli # NoCall /\ cli.reported => cli.exit_code # 0

=============================================================================
